---------------------------- MODULE Spec2Model ----------------------------
(***************************************************************************)
(* Verification model of the trader daemon (titaev-lv/daemon2).            *)
(*                                                                         *)
(* Part I   - subscription controller: task.SubscriptionManager (Merge,    *)
(*            computeSubscribe, computeUnsubscribe, ApplyDiff) driving     *)
(*            ws.Pool.Subscribe / ws.Pool.Unsubscribe.                     *)
(* Part II  - arbitrage transaction coordinator:                           *)
(*            trader.ArbitrageTransHandler over the ARBITRAGE_TRANS table. *)
(* Part III - fleet heartbeat tracker: manager.DaemonStateTracker and      *)
(*            CheckDeadDaemon over the DAEMON_STATE table.                 *)
(* Part IV  - trade history logger: trader.TradeHistoryLogger over the     *)
(*            TRADE_HISTORY table.                                         *)
(* Part V   - task fetcher: task.Fetcher (fetchTasks, fetchLoop, GetLast). *)
(* Part VI  - process lifecycle: state.Manager (the state file),           *)
(*            manager.Manager (Start, Stop, doStop) and main of cmd/daemon.*)
(* Part VII - database connection: db.ConnectWithRetry and                 *)
(*            calculateBackoffInterval.                                    *)
(* Part VIII- WS correlation: the event_id -> request_id map of ws.Pool.   *)
(* Part IX  - task fetcher in memory: fetchTasks against callers of        *)
(*            GetLast, with the mutex and the copies of the task structs.  *)
(*                                                                         *)
(* Go strings that the code formats and parses are sequences of one        *)
(* character strings, so that fmt.Sprintf("%s:%s") and                     *)
(* splitExchangeMarket are modelled by what they do to the characters.     *)
(***************************************************************************)
EXTENDS Integers, Sequences, FiniteSets, TLC

VARIABLES
    \* ---- task.SubscriptionManager
    lastMonitoring,   \* map key -> MonitoringTask (sm.lastMonitoring)
    lastTrading,      \* map key -> TradingTask    (sm.lastTrading)
    prevMonitoring,   \* sm.lastMonitoring as it was when the last Merge began
    prevTrading,      \* sm.lastTrading as it was when the last Merge began
    diff,             \* the *SubscriptionDiff returned by the last Merge
    pc,               \* position of the task loop: "idle", "merged", "applied"
    applyErr,         \* whether the last ApplyDiff returned an error
    trip,             \* history: "forward" after a Merge that began with controller
                      \* and pool empty, "back" after the Merge that followed it
    \* ---- ws.Pool
    calls,            \* ws_out records written during the last ApplyDiff
    subscribed,       \* the (venue, market, pair) subscribed, as the ws_out records say
    skipped,          \* history: entries the last failed ApplyDiff returned without reaching
    \* ---- catalog store
    arbTrans,         \* ARBITRAGE_TRANS: ID -> row
    daemonState,      \* DAEMON_STATE: the set of its rows
    tradeHistory,     \* TRADE_HISTORY: the rows in insertion order
    dbNow,            \* the clock, in seconds: NOW() of the store and time.Now()
    \* ---- trader.ArbitrageTransHandler, one per worker process
    lastCheckedID,    \* h.lastCheckedID of each worker
    hState,           \* "new", "started" (pollLoop running), "stopped"
    picked,           \* history: the ids each worker's poll loop has scanned
    observed,         \* history: the ids in the order each poll loop scanned them
    \* ---- manager.DaemonStateTracker
    tStatus,          \* t.status
    tRecordID,        \* t.recordID
    tCtx,             \* t.ctx: "nil", "live", "cancelled"
    tPc,              \* "new", "initialized" (Start is past initializeInDB),
                      \* "running", "failed" (Start returned an error), "stopped"
    tLoop,            \* heartbeatLoop: "none", "running", "exited"
    lastBeat,         \* history: outcome of the last writeHeartbeat of the loop
    stopErr,          \* whether Stop returned an error
    deadCheck,        \* the last call of CheckDeadDaemon and what it returned
    \* ---- trader.TradeHistoryLogger
    buffer,           \* l.buffer
    logErr,           \* whether the last LogOrderExecution or Flush returned an error
    firstLoggedAt,    \* history: the time the oldest buffered row was logged
    insertFailures,   \* history: consecutive batch inserts that failed
    failedAt,         \* history: the time of the last failed batch insert (0: none)
    accepted,         \* history: the non-nil orders passed to LogOrderExecution
    lastCall,         \* history: the last call made on the logger
    \* ---- task.Fetcher
    fLastMonitoring,  \* f.lastMonitoring
    fLastTrading,     \* f.lastTrading
    fState,           \* "new", "running" (fetchLoop waits for its ticker),
                      \* "failed" (Start returned an error), "stopped"
    fErr,             \* what the last fetchTasks returned: "nil", "monitoring", "trading"
    fPolls,           \* history: the number of fetchTasks calls so far
    fQueried,         \* history: what the monitoring query of the last call returned
    \* ---- files of the daemon
    configFile,       \* the file named by -c: "present" or "absent"
    stateFile,        \* state/daemon.state: NULL (no file) or {is_running}
    \* ---- state.Manager (the singleton of state.GetInstance)
    stIsRunning,      \* m.state.IsRunning
    lastSet,          \* history: the last SetRunning(r) of this process and its return
    \* ---- manager.Manager
    mIsRunning,       \* m.isRunning
    mStartTime,       \* m.startTime (0: the zero time)
    mShutdownTime,    \* m.shutdownTime (0: the zero time)
    mShutdownError,   \* m.shutdownError
    mCtx,             \* m.ctx: "live" or "cancelled"
    shutdownOnce,     \* m.shutdownOnce: "fresh", "running" (doStop under way), "done"
    graceTimer,       \* shutdownCtx of doStop: "off", "armed", "expired"
    comp,             \* the shutdownComponents goroutine: "none", "stopping", "done"
    doStops,          \* history: the number of shutdowns doStop has begun
    callers,          \* each caller of Start/Stop: position, last call and its return
    \* ---- cmd/daemon main
    mainPc,           \* "boot", "serving", "stopping" (signal received), "exited"
    exitCode,         \* the exit code of the process (-1: it has not exited)
    exitCause,        \* history: why the process exited
    run,              \* the number of processes started so far
    wasRunning,       \* history: m.isRunning when the last process began to end
    autoStarted,      \* history: main called mgr.Start() after manager.New
    startedInRun,     \* history: a Start of this process returned nil
    \* db.ConnectWithRetry
    cfgMaxRetries,    \* cfg.MaxRetries
    maxRetries,       \* the local maxRetries
    attempt,          \* the loop variable
    lastErr,          \* lastErr: 0 for nil, else the attempt whose error it holds
    driver,           \* the global driver: 0 for nil, else the attempt that made it
    cPc,              \* position in ConnectWithRetry
    cResult,          \* what ConnectWithRetry returned
    backoffs,         \* history: the backoff intervals computed, by attempt
    connects,         \* history: the number of d.Connect() calls made
    \* ws.Pool
    eventToRequestID, \* p.eventToRequestID
    wsNow,            \* the clock, in hours
    issued,           \* history: the event ids returned, with request id and time
    rPc,              \* position of each goroutine in LogInboundMessage
    rMsg,             \* the inbound message each goroutine is logging
    wsIn,             \* the ws_in log: the number of rows written per message
    rejected,         \* history: a subscribe or unsubscribe was refused
    cleaned,          \* history: the cleanup has run at the present time
    \* task.Fetcher in memory
    heap,             \* the task structs allocated, by address
    fMu,              \* f.mu: held by the writer, and the readers holding it
    wPc,              \* position of the goroutine in fetchTasks
    wLocal,           \* the locals monitoring and trading of fetchTasks
    mCycle,           \* history: the fetchTasks call that assigned f.lastMonitoring
    tCycle,           \* history: the fetchTasks call that assigned f.lastTrading
    gPc,              \* position of each caller of GetLast
    got,              \* the TasksData each caller of GetLast builds and gets
    gets              \* history: the number of GetLast calls begun

subVars == <<lastMonitoring, lastTrading, prevMonitoring, prevTrading, diff,
             pc, applyErr, trip, calls, subscribed, skipped>>

arbVars == <<arbTrans, lastCheckedID, hState, picked, observed>>

storeVars == <<daemonState, tradeHistory, dbNow>>

trackerVars == <<tStatus, tRecordID, tCtx, tPc, tLoop, lastBeat, stopErr, deadCheck>>

loggerVars == <<buffer, logErr, firstLoggedAt, insertFailures, failedAt, accepted,
               lastCall>>

fetcherVars == <<fLastMonitoring, fLastTrading, fState, fErr, fPolls, fQueried>>

procVars == <<configFile, stateFile, stIsRunning, lastSet,
              mIsRunning, mStartTime, mShutdownTime, mShutdownError, mCtx,
              shutdownOnce, graceTimer, comp, doStops, callers,
              mainPc, exitCode, exitCause, run, wasRunning, autoStarted,
              startedInRun>>

connVars == <<cfgMaxRetries, maxRetries, attempt, lastErr, driver, cPc, cResult,
              backoffs, connects>>

poolVars == <<eventToRequestID, wsNow, issued, rPc, rMsg, wsIn, rejected, cleaned>>

snapVars == <<heap, fMu, wPc, wLocal, mCycle, tCycle, gPc, got, gets>>

vars == <<lastMonitoring, lastTrading, prevMonitoring, prevTrading, diff,
          pc, applyErr, trip, calls, subscribed, skipped,
          arbTrans, daemonState, tradeHistory, dbNow,
          lastCheckedID, hState, picked, observed,
          tStatus, tRecordID, tCtx, tPc, tLoop, lastBeat, stopErr, deadCheck,
          buffer, logErr, firstLoggedAt, insertFailures, failedAt, accepted, lastCall,
          fLastMonitoring, fLastTrading, fState, fErr, fPolls, fQueried,
          configFile, stateFile, stIsRunning, lastSet,
          mIsRunning, mStartTime, mShutdownTime, mShutdownError, mCtx,
          shutdownOnce, graceTimer, comp, doStops, callers,
          mainPc, exitCode, exitCause, run, wasRunning, autoStarted,
          startedInRun,
          cfgMaxRetries, maxRetries, attempt, lastErr, driver, cPc, cResult,
          backoffs, connects,
          eventToRequestID, wsNow, issued, rPc, rMsg, wsIn, rejected, cleaned,
          heap, fMu, wPc, wLocal, mCycle, tCycle, gPc, got, gets>>

-----------------------------------------------------------------------------
(* Bounds of the model and the catalog the snapshots are drawn from.       *)

\* A TaskSnapshot holds at most MaxTasks tasks (monitor plus trade).
MaxTasks == 2

\* ARBITRAGE_TRANS holds at most MaxTrans rows, with ids 1..MaxTrans.
MaxTrans == 2

\* The clock takes the values 1..MaxClock (seconds).
MaxClock == 4

\* maxBuffer given to NewTradeHistoryLogger.
MaxBuffer == 2

\* TRADE_HISTORY and the buffer together hold at most MaxHistory rows.
MaxHistory == 3

\* The flush interval the logger is checked against (seconds).
FlushInterval == 2

\* At most MaxFailures batch inserts fail in a row.
MaxFailures == 2

\* A query of the Fetcher returns at most MaxFetched tasks.
MaxFetched == 2

\* The Fetcher calls fetchTasks at most MaxPolls times.
MaxPolls == 3

\* The daemon process is started at most MaxRuns times.
MaxRuns == 2

\* MAX_PAIRS_PER_SESSION the pool is checked against (default 40; one pair
\* here, so that two pairs of one (venue, market) overflow a session).
MaxPairsPerSession == 1

binance == <<"b","i","n","a","n","c","e">>
bybit   == <<"b","y","b","i","t">>
spot    == <<"s","p","o","t">>
futures == <<"f","u","t","u","r","e","s">>
BTCUSDT == <<"B","T","C","/","U","S","D","T">>
ETHUSDT == <<"E","T","H","/","U","S","D","T">>
grid    == <<"g","r","i","d">>

\* The trade pairs of the catalog: two pairs on one (venue, market), one on another.
Instruments == { <<binance, spot, BTCUSDT>>,
                 <<binance, spot, ETHUSDT>>,
                 <<bybit, futures, BTCUSDT>> }

Depths == {20, 50}

StrategyIDs == { grid }

MonitoringTasks ==
    { [ExchangeID |-> i[1], MarketType |-> i[2], TradePair |-> i[3],
       OrderbookDepth |-> d] : i \in Instruments, d \in Depths }

TradingTasks ==
    { [ExchangeID |-> i[1], MarketType |-> i[2], TradePair |-> i[3],
       StrategyID |-> s] : i \in Instruments, s \in StrategyIDs }

SeqsUpTo(S, n) == UNION { [1..k -> S] : k \in 0..n }

\* TasksData: the two task lists of one snapshot.
TasksDataSet ==
    { [MonitoringTasks |-> m, TradingTasks |-> t] :
        m \in SeqsUpTo(MonitoringTasks, MaxTasks),
        t \in SeqsUpTo(TradingTasks, MaxTasks) }

Snapshots == { s \in TasksDataSet :
                 Len(s.MonitoringTasks) + Len(s.TradingTasks) <= MaxTasks }

-----------------------------------------------------------------------------
(* Helpers.                                                                *)

EmptyMap == [k \in {} |-> 0]

\* All orders in which a Go `range` over a map with key set S may visit it.
Orders(S) ==
    { s \in [1..Cardinality(S) -> S] :
        \A i, j \in 1..Cardinality(S) : i # j => s[i] # s[j] }

Range(s) == { s[i] : i \in DOMAIN s }

\* fmt.Sprintf("%s:%s", a, b)
Sprintf2(a, b) == a \o <<":">> \o b

GetMonitoringTaskKey(t) ==
    t.ExchangeID \o <<":">> \o t.MarketType \o <<":">> \o t.TradePair

GetTradingTaskKey(t) ==
    t.ExchangeID \o <<":">> \o t.MarketType \o <<":">> \o t.TradePair
        \o <<":">> \o t.StrategyID

RECURSIVE splitLoop(_, _, _, _)
splitLoop(key, i, parts, current) ==
    IF i > Len(key)
    THEN IF current # <<>> THEN Append(parts, current) ELSE parts
    ELSE IF key[i] = ":"
         THEN splitLoop(key, i + 1, Append(parts, current), <<>>)
         ELSE splitLoop(key, i + 1, parts, Append(current, key[i]))

\* splitExchangeMarket parses a key of the form "exchange:market".
splitExchangeMarket(key) == splitLoop(key, 1, <<>>, <<>>)


-----------------------------------------------------------------------------
(* Part I - task.SubscriptionManager                                       *)

\* Merge, first half: the list of a snapshot becomes a map by key; a later
\* task with the same key overwrites an earlier one.
BuildMonitoring(tasks) ==
    LET keyAt(i) == GetMonitoringTaskKey(tasks[i])
        last(k)  == CHOOSE i \in DOMAIN tasks :
                        /\ keyAt(i) = k
                        /\ \A j \in DOMAIN tasks : keyAt(j) = k => j <= i
    IN  [k \in { keyAt(i) : i \in DOMAIN tasks } |-> tasks[last(k)]]

BuildTrading(tasks) ==
    LET keyAt(i) == GetTradingTaskKey(tasks[i])
        last(k)  == CHOOSE i \in DOMAIN tasks :
                        /\ keyAt(i) = k
                        /\ \A j \in DOMAIN tasks : keyAt(j) = k => j <= i
    IN  [k \in { keyAt(i) : i \in DOMAIN tasks } |-> tasks[last(k)]]

\* AddedKeys without the `!exists` test: every task of the snapshot counts as new.
AddedKeysIgnoringLast(last, new) == DOMAIN new

\* The keys a loop of computeSubscribe treats as new: `_, exists := last[key]; !exists`.
AddedKeys(last, new) == { k \in DOMAIN new : k \notin DOMAIN last }

\* RemovedKeys with the test inverted: the keys that are still present.
RemovedKeysInverted(last, new) == { k \in DOMAIN last : k \in DOMAIN new }

\* The keys a loop of computeUnsubscribe treats as deleted.
RemovedKeys(last, new) == { k \in DOMAIN last : k \notin DOMAIN new }

\* Depth given to a pair that only a trading task brings in.
DefaultTradeDepth == 50

\* `if depth == 0 { depth = d }` over the pairs in iteration order.
RECURSIVE firstDepth(_, _, _)
firstDepth(ds, i, depth) ==
    IF i > Len(ds) THEN depth
    ELSE firstDepth(ds, i + 1, IF depth = 0 THEN ds[i] ELSE depth)

\* The lists a loop `for emKey, g := range groups` can append, where cands[em]
\* is the set of entries the loop body can build for em; an entry is appended
\* only when its key splits into two parts (`if len(parts) == 2`).
GroupLists(cands) ==
    LET ems     == DOMAIN cands
        all     == UNION { cands[e] : e \in ems }
        choices == { c \in [ems -> all] : \A e \in ems : c[e] \in cands[e] }
        keep(g) == Len(g.parts) = 2
        sub(g)  == [ExchangeID |-> g.parts[1], MarketType |-> g.parts[2],
                    Pairs |-> g.Pairs, Depth |-> g.Depth]
        emit(c, o) ==
            LET kept == SelectSeq([i \in DOMAIN o |-> c[o[i]]], keep)
            IN  [i \in DOMAIN kept |-> sub(kept[i])]
    IN  { emit(c, o) : c \in choices, o \in Orders(ems) }

\* computeSubscribe: every list it can return (Go visits maps in any order).
computeSubscribe(lastM, lastT, newMonitoring, newTrading) ==
    LET emOf(t) == Sprintf2(t.ExchangeID, t.MarketType)
        \* the entries the two loops write: <<emKey, pair, depth>>
        monNew == { <<emOf(newMonitoring[k]), newMonitoring[k].TradePair,
                      newMonitoring[k].OrderbookDepth>> :
                        k \in AddedKeys(lastM, newMonitoring) }
        trdNew == { <<emOf(newTrading[k]), newTrading[k].TradePair>> :
                        k \in AddedKeys(lastT, newTrading) }
        ems == { x[1] : x \in monNew } \cup { x[1] : x \in trdNew }
        \* pairsByExchangeMarket[em] after both loops: the depth maps it can hold
        depthMaps(em) ==
            LET mon   == { x \in monNew : x[1] = em }
                monP  == { x[2] : x \in mon }
                pairs == monP \cup { x[2] : x \in { y \in trdNew : y[1] = em } }
                ds    == { x[3] : x \in mon } \cup { DefaultTradeDepth }
            IN  { f \in [pairs -> ds] :
                    \A p \in pairs :
                        IF p \in monP
                        THEN \E x \in mon : x[2] = p /\ x[3] = f[p]
                        ELSE f[p] = DefaultTradeDepth }
        cands(em) ==
            LET parts == splitExchangeMarket(em)
            IN  UNION { { [parts |-> parts, Pairs |-> o,
                           Depth |-> firstDepth([i \in DOMAIN o |-> f[o[i]]], 1, 0)] :
                            o \in Orders(DOMAIN f) } : f \in depthMaps(em) }
    IN  GroupLists([em \in ems |-> cands(em)])

\* computeUnsubscribe: every list it can return.
computeUnsubscribe(lastM, lastT, newMonitoring, newTrading) ==
    LET emOf(t) == Sprintf2(t.ExchangeID, t.MarketType)
        old == { <<emOf(lastM[k]), lastM[k].TradePair>> :
                    k \in RemovedKeys(lastM, newMonitoring) }
               \cup { <<emOf(lastT[k]), lastT[k].TradePair>> :
                    k \in RemovedKeys(lastT, newTrading) }
        ems == { x[1] : x \in old }
        cands(em) ==
            LET parts == splitExchangeMarket(em)
            IN  { [parts |-> parts, Pairs |-> o, Depth |-> 0] :
                    o \in Orders({ x[2] : x \in { y \in old : y[1] = em } }) }
    IN  GroupLists([em \in ems |-> cands(em)])

\* Every SubscriptionDiff Merge can return for the recorded state and the new maps.
MergeDiffs(lastM, lastT, newMonitoring, newTrading) ==
    { [ToSubscribe |-> ts, Unsubscribe |-> us] :
        ts \in computeSubscribe(lastM, lastT, newMonitoring, newTrading),
        us \in computeUnsubscribe(lastM, lastT, newMonitoring, newTrading) }

EmptyDiff == [ToSubscribe |-> <<>>, Unsubscribe |-> <<>>]

-----------------------------------------------------------------------------
(* ws.Pool: Subscribe and Unsubscribe keep no subscription table; each     *)
(* accepted call writes one ws_out record.  `subscribed` is the set those   *)
(* records describe: a subscribe record adds its pairs, an unsubscribe      *)
(* record removes its pairs.                                                *)

PoolKeys(exchangeID, marketType, pairs) ==
    { <<exchangeID, marketType, pairs[i]>> : i \in DOMAIN pairs }

\* Pool.Subscribe: an empty pair list is an error, otherwise the record is written.
PoolSubscribe(st, exchangeID, marketType, pairs, depth) ==
    IF Len(pairs) = 0
    THEN [st EXCEPT !.err = TRUE]
    ELSE LET ks == PoolKeys(exchangeID, marketType, pairs)
         IN  [st EXCEPT
                !.calls = Append(@, [op |-> "subscribe", ExchangeID |-> exchangeID,
                                     MarketType |-> marketType, Pairs |-> pairs,
                                     Depth |-> depth]),
                !.subscribed = @ \cup ks]

\* Pool.Unsubscribe
PoolUnsubscribe(st, exchangeID, marketType, pairs) ==
    IF Len(pairs) = 0
    THEN [st EXCEPT !.err = TRUE]
    ELSE LET ks == PoolKeys(exchangeID, marketType, pairs)
         IN  [st EXCEPT
                !.calls = Append(@, [op |-> "unsubscribe", ExchangeID |-> exchangeID,
                                     MarketType |-> marketType, Pairs |-> pairs,
                                     Depth |-> 0]),
                !.subscribed = @ \ ks]

\* The first loop without `return err`: it goes on after a failed Subscribe.
RECURSIVE applySubscribesContinuing(_, _, _)
applySubscribesContinuing(st, subs, i) ==
    IF i > Len(subs) THEN st
    ELSE applySubscribesContinuing(
             PoolSubscribe(st, subs[i].ExchangeID, subs[i].MarketType,
                           subs[i].Pairs, subs[i].Depth),
             subs, i + 1)

\* ApplyDiff, first loop: `for _, sub := range diff.ToSubscribe`, returning at the
\* first error.
RECURSIVE applySubscribes(_, _, _)
applySubscribes(st, subs, i) ==
    IF st.err \/ i > Len(subs) THEN st
    ELSE applySubscribes(
             PoolSubscribe(st, subs[i].ExchangeID, subs[i].MarketType,
                           subs[i].Pairs, subs[i].Depth),
             subs, i + 1)

\* ApplyDiff, second loop: `for _, sub := range diff.Unsubscribe`.
RECURSIVE applyUnsubscribes(_, _, _)
applyUnsubscribes(st, subs, i) ==
    IF st.err \/ i > Len(subs) THEN st
    ELSE applyUnsubscribes(
             PoolUnsubscribe(st, subs[i].ExchangeID, subs[i].MarketType,
                             subs[i].Pairs),
             subs, i + 1)

\* ApplyDiff as a function of the subscribed set: subscribes first, then unsubscribes.
ApplyDiffResult(table, d) ==
    applyUnsubscribes(
        applySubscribes([subscribed |-> table, calls |-> <<>>, err |-> FALSE],
                        d.ToSubscribe, 1),
        d.Unsubscribe, 1)

-----------------------------------------------------------------------------
(* Actions of the subscription controller.                                 *)

ControllerEmpty ==
    DOMAIN lastMonitoring = {} /\ DOMAIN lastTrading = {} /\ subscribed = {}

\* SubscriptionManager.Merge(newTasks), called by the task loop with a new snapshot.
Merge(newTasks) ==
    /\ pc = "idle"
    /\ LET newMonitoring == BuildMonitoring(newTasks.MonitoringTasks)
           newTrading    == BuildTrading(newTasks.TradingTasks)
       IN  /\ diff' \in MergeDiffs(lastMonitoring, lastTrading,
                                   newMonitoring, newTrading)
           /\ lastMonitoring' = newMonitoring
           /\ lastTrading' = newTrading
    /\ prevMonitoring' = lastMonitoring
    /\ prevTrading' = lastTrading
    /\ trip' = IF trip = "forward" THEN "back"
               ELSE IF ControllerEmpty THEN "forward" ELSE "other"
    /\ pc' = "merged"
    /\ UNCHANGED <<applyErr, calls, subscribed, skipped>>
    /\ UNCHANGED <<arbVars, storeVars, trackerVars, loggerVars, fetcherVars, procVars, connVars, poolVars, snapVars>>

\* SubscriptionManager.ApplyDiff(diff) on the diff Merge returned.
ApplyDiff ==
    /\ pc = "merged"
    /\ LET r == ApplyDiffResult(subscribed, diff)
       IN  /\ subscribed' = r.subscribed
           /\ calls' = r.calls
           /\ applyErr' = r.err
           /\ skipped' = IF r.err
                         THEN Len(diff.ToSubscribe) + Len(diff.Unsubscribe)
                                 - Len(r.calls) - 1
                         ELSE 0
    /\ pc' = "applied"
    /\ UNCHANGED <<lastMonitoring, lastTrading, prevMonitoring, prevTrading,
                   diff, trip>>
    /\ UNCHANGED <<arbVars, storeVars, trackerVars, loggerVars, fetcherVars, procVars, connVars, poolVars, snapVars>>

\* The task loop drops the diff and waits for the next snapshot.
NextPoll ==
    /\ pc = "applied"
    /\ pc' = "idle"
    /\ diff' = EmptyDiff
    /\ calls' = <<>>
    /\ applyErr' = FALSE
    /\ prevMonitoring' = EmptyMap
    /\ prevTrading' = EmptyMap
    /\ UNCHANGED <<lastMonitoring, lastTrading, trip, subscribed, skipped>>
    /\ UNCHANGED <<arbVars, storeVars, trackerVars, loggerVars, fetcherVars, procVars, connVars, poolVars, snapVars>>

\* NewSubscriptionManager(NewPool()): empty maps, nothing subscribed.
InitController ==
    /\ lastMonitoring = EmptyMap
    /\ lastTrading = EmptyMap
    /\ prevMonitoring = EmptyMap
    /\ prevTrading = EmptyMap
    /\ diff = EmptyDiff
    /\ pc = "idle"
    /\ applyErr = FALSE
    /\ trip = "none"
    /\ calls = <<>>
    /\ subscribed = {}
    /\ skipped = 0

\* A SubscriptionDiff entry without pairs, as a caller of ApplyDiff can build it.
EmptyEntry ==
    [ExchangeID |-> binance, MarketType |-> spot, Pairs |-> <<>>, Depth |-> 0]

InsertAt(seq, i, x) ==
    SubSeq(seq, 1, i - 1) \o <<x>> \o SubSeq(seq, i, Len(seq))

HasEmptyEntry(d) ==
    \/ \E i \in DOMAIN d.ToSubscribe : Len(d.ToSubscribe[i].Pairs) = 0
    \/ \E i \in DOMAIN d.Unsubscribe : Len(d.Unsubscribe[i].Pairs) = 0

\* The caller of the exported ApplyDiff hands it a SubscriptionDiff of its own:
\* the one Merge returned with an entry without pairs put into one of the two
\* lists.  Pool.Subscribe and Pool.Unsubscribe return an error for that entry.
CallerEditsDiff ==
    /\ pc = "merged"
    /\ ~HasEmptyEntry(diff)
    /\ \/ \E i \in 1..(Len(diff.ToSubscribe) + 1) :
             diff' = [diff EXCEPT !.ToSubscribe = InsertAt(@, i, EmptyEntry)]
       \/ \E i \in 1..(Len(diff.Unsubscribe) + 1) :
             diff' = [diff EXCEPT !.Unsubscribe = InsertAt(@, i, EmptyEntry)]
    /\ UNCHANGED <<lastMonitoring, lastTrading, prevMonitoring, prevTrading,
                   pc, applyErr, trip, calls, subscribed, skipped>>
    /\ UNCHANGED <<arbVars, storeVars, trackerVars, loggerVars, fetcherVars, procVars, connVars, poolVars, snapVars>>

NextController ==
    \/ \E newTasks \in Snapshots : Merge(newTasks)
    \/ ApplyDiff
    \/ NextPoll

-----------------------------------------------------------------------------
(* Part II - the catalog store and trader.ArbitrageTransHandler            *)

\* ARBITRAGE_TRANS_STATUS
StatusNew                  == 1
StatusInProgress           == 2
StatusSuspend              == 3
StatusError                == 4
StatusComplete             == 5
StatusCompleteLoss         == 6
StatusErrorApproved        == 7
StatusCompleteLossApproved == 8

Statuses == StatusNew..StatusCompleteLossApproved

\* A nullable column holds NULL or { value }.
NULL == {}

\* The TRADE configurations the rows refer to.
TradeIDs == { 7 }

\* The worker processes that run a handler over the same store.
Workers == { "w1", "w2" }

\* Rows of ARBITRAGE_TRANS as the store can hold them when the process starts.
ArbRows ==
    [TRADE_ID : TradeIDs, STATUS : Statuses, AMOUNT : {NULL}, CALC_PRFIT : {NULL},
     DATE_MODIFY : {0}]

ArbTables == UNION { [1..n -> ArbRows] : n \in 0..MaxTrans }

\* Rows of DAEMON_STATE of peer workers.
DaemonRows ==
    [ID : {1},
     DAEMON_NAME : {"peer-1"},
     STATUS : {"RUNNING", "STOPPED", "ERROR"},
     LAST_HEARTBEAT : {0},
     ACTIVE_TRADE_ID : { {t} : t \in TradeIDs } \cup {NULL}]

DaemonTables == { {} } \cup { {r} : r \in DaemonRows }

\* Rows of TRADE_HISTORY: one per order execution.
HistoryRows ==
    [TRADE_ID : TradeIDs, ORDER_ID : {"o1"}, STATUS : {"FILLED", "PARTIAL"}]

\* TRADE_HISTORY as earlier processes can have left it: empty, or one partial fill.
HistoryTables ==
    { <<>> } \cup { <<r>> : r \in { h \in HistoryRows : h.STATUS = "PARTIAL" } }

\* NewArbitrageTransHandler(db), in each worker, over a store left by earlier
\* processes.
InitArbitrage ==
    /\ arbTrans \in ArbTables
    /\ daemonState \in DaemonTables
    /\ tradeHistory \in HistoryTables
    /\ dbNow = 1
    /\ lastCheckedID = [w \in Workers |-> 0]
    /\ hState = [w \in Workers |-> "new"]
    /\ picked = [w \in Workers |-> {}]
    /\ observed = [w \in Workers |-> <<>>]

\* ArbitrageTransHandler.Start: derives the context and starts pollLoop.
Start(w) ==
    /\ hState[w] = "new"
    /\ hState' = [hState EXCEPT ![w] = "started"]
    /\ UNCHANGED <<arbTrans, lastCheckedID, picked, observed>>
    /\ UNCHANGED <<subVars, storeVars, trackerVars, loggerVars, fetcherVars, procVars, connVars, poolVars, snapVars>>

\* ArbitrageTransHandler.Stop: cancels the context and waits for pollLoop.
Stop(w) ==
    /\ hState[w] = "started"
    /\ hState' = [hState EXCEPT ![w] = "stopped"]
    /\ UNCHANGED <<arbTrans, lastCheckedID, picked, observed>>
    /\ UNCHANGED <<subVars, storeVars, trackerVars, loggerVars, fetcherVars, procVars, connVars, poolVars, snapVars>>

\* SELECT ... WHERE STATUS = 1 AND ID > ? ORDER BY ID ASC
RECURSIVE ascending(_)
ascending(ids) ==
    IF ids = {} THEN <<>>
    ELSE LET m == CHOOSE x \in ids : \A y \in ids : x <= y
         IN  <<m>> \o ascending(ids \ {m})

\* The SELECT without the ID > ? condition.
SelectNewIgnoringAfter(table, after) ==
    ascending({ id \in DOMAIN table : table[id].STATUS = StatusNew })

SelectNew(table, after) ==
    ascending({ id \in DOMAIN table :
                  table[id].STATUS = StatusNew /\ id > after })

\* checkNewTransactions after scanning the first n rows of the result: each
\* scanned row sets lastCheckedID to its id.
checkNewTransactions(table, last, n) ==
    IF n = 0 THEN last ELSE SelectNew(table, last)[n]

\* One tick of pollLoop of worker w.  The query can fail (nothing is scanned)
\* and the scan can stop with an error after any row.  No statement of
\* checkNewTransactions writes to the store.
PollTick(w) ==
    /\ hState[w] = "started"
    /\ \E n \in 0..Len(SelectNew(arbTrans, lastCheckedID[w])) :
          /\ lastCheckedID' =
                [lastCheckedID EXCEPT
                    ![w] = checkNewTransactions(arbTrans, lastCheckedID[w], n)]
          /\ picked' =
                [picked EXCEPT
                    ![w] = @ \cup { SelectNew(arbTrans, lastCheckedID[w])[i] :
                                      i \in 1..n }]
          /\ observed' =
                [observed EXCEPT
                    ![w] = @ \o SubSeq(SelectNew(arbTrans, lastCheckedID[w]), 1, n)]
    /\ UNCHANGED <<arbTrans, hState>>
    /\ UNCHANGED <<subVars, storeVars, trackerVars, loggerVars, fetcherVars, procVars, connVars, poolVars, snapVars>>

\* RecoverUpdate with the WHERE clause on Complete instead of Suspend.
RecoverUpdateWhereComplete(table, now) ==
    [id \in DOMAIN table |->
        IF table[id].STATUS = StatusComplete
        THEN [table[id] EXCEPT !.STATUS = StatusNew, !.DATE_MODIFY = now]
        ELSE table[id]]

\* RecoverUpdate with AMOUNT and CALC_PRFIT in the SET clause.
RecoverUpdateSettingAmount(table, now) ==
    [id \in DOMAIN table |->
        IF table[id].STATUS = StatusSuspend
        THEN [table[id] EXCEPT !.STATUS = StatusNew, !.DATE_MODIFY = now,
                               !.AMOUNT = {0}, !.CALC_PRFIT = {0}]
        ELSE table[id]]

\* UPDATE ARBITRAGE_TRANS SET STATUS = 1, DATE_MODIFY = NOW() WHERE STATUS = 3
RecoverUpdate(table, now) ==
    [id \in DOMAIN table |->
        IF table[id].STATUS = StatusSuspend
        THEN [table[id] EXCEPT !.STATUS = StatusNew, !.DATE_MODIFY = now]
        ELSE table[id]]

\* ArbitrageTransHandler.RecoverSuspendedTransactions with a live context; the
\* statement either runs or fails as a whole.
RecoverSuspendedTransactions(w) ==
    /\ hState[w] = "started"
    /\ \/ arbTrans' = RecoverUpdate(arbTrans, dbNow)
       \/ arbTrans' = arbTrans
    /\ UNCHANGED <<lastCheckedID, hState, picked, observed>>
    /\ UNCHANGED <<subVars, storeVars, trackerVars, loggerVars, fetcherVars, procVars, connVars, poolVars, snapVars>>

\* Time passes.
Tick ==
    /\ dbNow < MaxClock
    /\ dbNow' = dbNow + 1
    /\ UNCHANGED <<daemonState, tradeHistory>>
    /\ UNCHANGED <<subVars, arbVars, trackerVars, loggerVars, fetcherVars, procVars, connVars, poolVars, snapVars>>

NextArbitrage ==
    \/ \E w \in Workers : Start(w)
    \/ \E w \in Workers : PollTick(w)
    \/ \E w \in Workers : RecoverSuspendedTransactions(w)
    \/ \E w \in Workers : Stop(w)
    \/ Tick

\* The handlers before they are given a store with rows.
InitArbitrageIdle ==
    /\ arbTrans = <<>>
    /\ lastCheckedID = [w \in Workers |-> 0]
    /\ hState = [w \in Workers |-> "new"]
    /\ picked = [w \in Workers |-> {}]
    /\ observed = [w \in Workers |-> <<>>]

\* An empty store.
InitStoreIdle ==
    /\ daemonState = {}
    /\ tradeHistory = <<>>
    /\ dbNow = 1

-----------------------------------------------------------------------------
(* Part III - manager.DaemonStateTracker and CheckDeadDaemon               *)

\* t.daemonName of the tracker, and the name of a peer worker.
OwnName == "host-1"

DaemonNames == { OwnName, "peer-1" }

MicrosPerSecond == 1000000

\* time.Now().UnixMicro() when the clock reads `now` seconds.
UnixMicro(now) == now * MicrosPerSecond

\* LAST_HEARTBEAT of the rows earlier processes left: 0.5 s and 1 s.
HeartbeatsAtStart == { MicrosPerSecond \div 2, MicrosPerSecond }

\* The timeoutSec a caller of CheckDeadDaemon passes.
Timeouts == { 1, 2 }

\* DAEMON_STATE as earlier processes can have left it: at most one row per
\* name (DAEMON_NAME is UNIQUE), ids distinct.
TrackerRows ==
    [ID : 1..2,
     DAEMON_NAME : DaemonNames,
     STATUS : {"RUNNING", "STOPPED"},
     LAST_HEARTBEAT : HeartbeatsAtStart,
     ACTIVE_TRADE_ID : { {t} : t \in TradeIDs } \cup {NULL}]

TrackerTables ==
    LET ok(r) == r.DAEMON_NAME # OwnName => r.ACTIVE_TRADE_ID = NULL
        rows  == { r \in TrackerRows : ok(r) }
        own   == { r \in rows : r.DAEMON_NAME = OwnName }
        peers == { r \in rows : r.DAEMON_NAME # OwnName }
        pairs == { p \in own \X peers : p[1].ID # p[2].ID }
    IN  { {} }
        \cup { {r} : r \in { x \in rows : x.ID = 1 } }
        \cup { {p[1], p[2]} : p \in pairs }

\* result.LastInsertId() of an INSERT: the next AUTO_INCREMENT value.
LastInsertId(table) ==
    IF table = {} THEN 1
    ELSE 1 + (CHOOSE m \in { r.ID : r \in table } :
                 \A r \in table : r.ID <= m)

\* t.db.ExecContext(ctx, ...): with a cancelled context the statement is not
\* sent and the call returns the context's error; otherwise the statement runs
\* (the table becomes `updated`) or fails.
ExecContext(ctx, table, updated) ==
    IF ctx = "cancelled"
    THEN { [table |-> table, err |-> TRUE] }
    ELSE { [table |-> updated, err |-> FALSE], [table |-> table, err |-> TRUE] }

\* initializeInDB whose UPDATE of a row found leaves STATUS as it is.
initializeInDBKeepingStatus(table, now, daemonName, status, recordID) ==
    LET found == { r \in table : r.DAEMON_NAME = daemonName }
        queryFailed == [table |-> table, recordID |-> recordID, err |-> TRUE]
    IN  {queryFailed} \cup
        IF found = {}
        THEN LET id  == LastInsertId(table)
                 row == [ID |-> id, DAEMON_NAME |-> daemonName, STATUS |-> status,
                         LAST_HEARTBEAT |-> UnixMicro(now), ACTIVE_TRADE_ID |-> NULL]
             IN  { [table |-> table \cup {row}, recordID |-> id, err |-> FALSE],
                   [table |-> table, recordID |-> recordID, err |-> TRUE] }
        ELSE LET existing == CHOOSE r \in found : TRUE
                 updated  == (table \ {existing}) \cup
                             { [existing EXCEPT !.LAST_HEARTBEAT = UnixMicro(now)] }
             IN  { [table |-> o.table, recordID |-> existing.ID, err |-> o.err] :
                     o \in ExecContext("live", table, updated) }

\* initializeInDB: SELECT ID ... WHERE DAEMON_NAME = ?, then INSERT a new row or
\* UPDATE the row found.  Every outcome: the table, t.recordID, whether an error
\* is returned.
initializeInDB(table, now, daemonName, status, recordID) ==
    LET found == { r \in table : r.DAEMON_NAME = daemonName }
        queryFailed == [table |-> table, recordID |-> recordID, err |-> TRUE]
    IN  {queryFailed} \cup
        IF found = {}
        THEN LET id  == LastInsertId(table)
                 row == [ID |-> id, DAEMON_NAME |-> daemonName, STATUS |-> status,
                         LAST_HEARTBEAT |-> UnixMicro(now), ACTIVE_TRADE_ID |-> NULL]
             IN  { [table |-> table \cup {row}, recordID |-> id, err |-> FALSE],
                   [table |-> table, recordID |-> recordID, err |-> TRUE] }
        ELSE LET existing == CHOOSE r \in found : TRUE
                 updated  == (table \ {existing}) \cup
                             { [existing EXCEPT !.STATUS = status,
                                                !.LAST_HEARTBEAT = UnixMicro(now)] }
             IN  { [table |-> o.table, recordID |-> existing.ID, err |-> o.err] :
                     o \in ExecContext("live", table, updated) }

\* UPDATE DAEMON_STATE SET STATUS = ?, LAST_HEARTBEAT = ?, ... WHERE ID = ?
setStatus(table, ctx, now, recordID, status) ==
    ExecContext(ctx, table,
        { IF r.ID = recordID
          THEN [r EXCEPT !.STATUS = status, !.LAST_HEARTBEAT = UnixMicro(now)]
          ELSE r : r \in table })

\* UPDATE DAEMON_STATE SET LAST_HEARTBEAT = ?, ... WHERE ID = ?
writeHeartbeat(table, ctx, now, recordID) ==
    ExecContext(ctx, table,
        { IF r.ID = recordID
          THEN [r EXCEPT !.LAST_HEARTBEAT = UnixMicro(now)]
          ELSE r : r \in table })

\* heartbeatLoop returning when a write fails.
heartbeatLoopReturningOnError(err) == IF err THEN "exited" ELSE "running"

\* heartbeatLoop after the ticker case: the error is printed and the loop goes
\* on to the next select.
heartbeatLoopAfterTick(err) == "running"

\* time.Unix(sec, nsec): seconds and nanoseconds, nsec brought into [0, 1e9).
TimeUnix(sec, nsec) ==
    <<sec + (nsec \div (1000 * MicrosPerSecond)), nsec % (1000 * MicrosPerSecond)>>

\* now.Sub(t) as a duration of whole seconds and nanoseconds.
TimeSub(a, b) == TimeUnix(a[1] - b[1], a[2] - b[2])

\* d > time.Duration(timeoutSec) * time.Second
LongerThanSeconds(d, timeoutSec) ==
    d[1] > timeoutSec \/ (d[1] = timeoutSec /\ d[2] > 0)

\* CheckDeadDaemon answering FALSE when the query returns no row.
CheckDeadDaemonNoRowAlive(table, now, daemonName, timeoutSec) ==
    LET rows == { r \in table : r.DAEMON_NAME = daemonName /\ r.STATUS = "RUNNING" }
    IN  { [isDead |-> FALSE, err |-> TRUE] } \cup
        IF rows = {}
        THEN { [isDead |-> FALSE, err |-> FALSE] }
        ELSE { [isDead |->
                  LongerThanSeconds(
                      TimeSub(TimeUnix(now, 0),
                              TimeUnix(r.LAST_HEARTBEAT \div MicrosPerSecond,
                                       (r.LAST_HEARTBEAT % MicrosPerSecond) * 1000)),
                      timeoutSec),
                err |-> FALSE] : r \in rows }

\* CheckDeadDaemon(db, daemonName, timeoutSec): every (isDead, err) it can
\* return.  LAST_HEARTBEAT is not negative, so Go's / and % are \div and %.
CheckDeadDaemonResult(table, now, daemonName, timeoutSec) ==
    LET rows == { r \in table : r.DAEMON_NAME = daemonName /\ r.STATUS = "RUNNING" }
    IN  { [isDead |-> FALSE, err |-> TRUE] } \cup
        IF rows = {}
        THEN { [isDead |-> TRUE, err |-> FALSE] }
        ELSE { [isDead |->
                  LongerThanSeconds(
                      TimeSub(TimeUnix(now, 0),
                              TimeUnix(r.LAST_HEARTBEAT \div MicrosPerSecond,
                                       (r.LAST_HEARTBEAT % MicrosPerSecond) * 1000)),
                      timeoutSec),
                err |-> FALSE] : r \in rows }

NoBeat == [outcome |-> "none", at |-> 0, afterFailure |-> FALSE]

NoCheck == [called |-> FALSE, daemonName |-> "", timeoutSec |-> 0,
            isDead |-> FALSE, err |-> FALSE]

\* NewDaemonStateTracker(db, OwnName, role)
InitTrackerIdle ==
    /\ tStatus = "STARTING"
    /\ tRecordID = 0
    /\ tCtx = "nil"
    /\ tPc = "new"
    /\ tLoop = "none"
    /\ lastBeat = NoBeat
    /\ stopErr = FALSE
    /\ deadCheck = NoCheck

\* The tracker over a store left by earlier processes.
InitTracker ==
    /\ InitTrackerIdle
    /\ daemonState \in TrackerTables
    /\ tradeHistory = <<>>
    /\ dbNow = 1

\* DaemonStateTracker.Start up to the return of initializeInDB.
TrackerStart ==
    /\ tPc = "new"
    /\ tCtx' = "live"
    /\ \E o \in initializeInDB(daemonState, dbNow, OwnName, tStatus, tRecordID) :
          /\ daemonState' = o.table
          /\ tRecordID' = o.recordID
          /\ tPc' = IF o.err THEN "failed" ELSE "initialized"
    /\ UNCHANGED <<tStatus, tLoop, lastBeat, stopErr, deadCheck>>
    /\ UNCHANGED <<tradeHistory, dbNow>>
    /\ UNCHANGED <<subVars, arbVars, loggerVars, fetcherVars, procVars, connVars, poolVars, snapVars>>

\* DaemonStateTracker.Start from setStatus("RUNNING") on: the heartbeat
\* goroutine is started only when the status was written.
TrackerStartRunning ==
    /\ tPc = "initialized"
    /\ tStatus' = "RUNNING"
    /\ \E o \in setStatus(daemonState, tCtx, dbNow, tRecordID, "RUNNING") :
          /\ daemonState' = o.table
          /\ tPc' = IF o.err THEN "failed" ELSE "running"
          /\ tLoop' = IF o.err THEN tLoop ELSE "running"
    /\ UNCHANGED <<tRecordID, tCtx, lastBeat, stopErr, deadCheck>>
    /\ UNCHANGED <<tradeHistory, dbNow>>
    /\ UNCHANGED <<subVars, arbVars, loggerVars, fetcherVars, procVars, connVars, poolVars, snapVars>>

\* heartbeatLoop, the `case <-ticker.C` branch.
HeartbeatTick ==
    /\ tLoop = "running"
    /\ tCtx = "live"
    /\ \E o \in writeHeartbeat(daemonState, tCtx, dbNow, tRecordID) :
          /\ daemonState' = o.table
          /\ lastBeat' = [outcome |-> IF o.err THEN "failed" ELSE "ok",
                          at |-> dbNow,
                          afterFailure |-> lastBeat.outcome = "failed"]
          /\ tLoop' = heartbeatLoopAfterTick(o.err)
    /\ UNCHANGED <<tStatus, tRecordID, tCtx, tPc, stopErr, deadCheck>>
    /\ UNCHANGED <<tradeHistory, dbNow>>
    /\ UNCHANGED <<subVars, arbVars, loggerVars, fetcherVars, procVars, connVars, poolVars, snapVars>>

\* DaemonStateTracker.Stop: t.cancel(), t.wg.Wait(), then setStatus("STOPPED")
\* with the context that was just cancelled.
TrackerStop ==
    /\ tPc = "running"
    /\ tCtx' = "cancelled"
    /\ tLoop' = "exited"
    /\ tStatus' = "STOPPED"
    /\ \E o \in setStatus(daemonState, "cancelled", dbNow, tRecordID, "STOPPED") :
          /\ daemonState' = o.table
          /\ stopErr' = o.err
    /\ tPc' = "stopped"
    /\ UNCHANGED <<tRecordID, lastBeat, deadCheck>>
    /\ UNCHANGED <<tradeHistory, dbNow>>
    /\ UNCHANGED <<subVars, arbVars, loggerVars, fetcherVars, procVars, connVars, poolVars, snapVars>>

\* A peer calls CheckDeadDaemon(db, daemonName, timeoutSec).
CheckDeadDaemon ==
    /\ \E n \in DaemonNames, timeoutSec \in Timeouts :
         \E o \in CheckDeadDaemonResult(daemonState, dbNow, n, timeoutSec) :
            deadCheck' = [called |-> TRUE, daemonName |-> n,
                          timeoutSec |-> timeoutSec,
                          isDead |-> o.isDead, err |-> o.err]
    /\ UNCHANGED <<tStatus, tRecordID, tCtx, tPc, tLoop, lastBeat, stopErr>>
    /\ UNCHANGED storeVars
    /\ UNCHANGED <<subVars, arbVars, loggerVars, fetcherVars, procVars, connVars, poolVars, snapVars>>

NextTracker ==
    \/ TrackerStart
    \/ TrackerStartRunning
    \/ HeartbeatTick
    \/ TrackerStop
    \/ CheckDeadDaemon
    \/ Tick

-----------------------------------------------------------------------------
(* Part IV - trader.TradeHistoryLogger                                     *)

\* The *OrderExecution values a caller logs.
OrderExecutions ==
    [TradeID : TradeIDs, OrderID : {"o1"}, Status : {"FILLED", "PARTIAL"}]

\* The VALUES tuple flushUnsafe builds for one buffered order.
HistoryRow(order) ==
    [TRADE_ID |-> order.TradeID, ORDER_ID |-> order.OrderID, STATUS |-> order.Status]

\* The rows the INSERT of buf adds to the table.
BatchRows(buf) == [i \in DOMAIN buf |-> HistoryRow(buf[i])]

\* flushUnsafe that replaces the buffer whenever the INSERT returned no error,
\* whatever number of rows it reports.
flushUnsafeClearingAlways(buf, table) ==
    IF Len(buf) = 0
    THEN { [buffer |-> buf, table |-> table, err |-> FALSE] }
    ELSE { [buffer |-> buf, table |-> table, err |-> TRUE],
           [buffer |-> buf, table |-> table \o BatchRows(buf), err |-> TRUE] }
         \cup { [buffer |-> <<>>,
                 table |-> table \o SubSeq(BatchRows(buf), 1, k),
                 err |-> FALSE] : k \in 0..Len(buf) }

\* flushUnsafe: every outcome.  An empty buffer returns nil at once; otherwise
\* one multi-row INSERT runs.  db.Exec fails: the buffer is kept and the error
\* returned.  result.RowsAffected fails after the INSERT ran: the buffer is
\* kept and the error returned.  The INSERT reports k rows: with
\* k == len(l.buffer) the buffer is replaced by an empty one, with any other k
\* the buffer is kept; nil is returned in both cases.
flushUnsafe(buf, table) ==
    IF Len(buf) = 0
    THEN { [buffer |-> buf, table |-> table, err |-> FALSE] }
    ELSE { [buffer |-> buf, table |-> table, err |-> TRUE],
           [buffer |-> buf, table |-> table \o BatchRows(buf), err |-> TRUE] }
         \cup { [buffer |-> IF k = Len(buf) THEN <<>> ELSE buf,
                 table |-> table \o SubSeq(BatchRows(buf), 1, k),
                 err |-> FALSE] : k \in 0..Len(buf) }

\* LogOrderExecution(order) for a non-nil order: append, then flush when the
\* buffer has reached maxBuffer.
LogOrderExecutionResult(buf, table, maxBuffer, order) ==
    LET appended == Append(buf, order)
    IN  IF Len(appended) >= maxBuffer
        THEN flushUnsafe(appended, table)
        ELSE { [buffer |-> appended, table |-> table, err |-> FALSE] }

\* The time the oldest row of the buffer was logged (0: the buffer is empty).
FirstLoggedAt(before, after, first, now) ==
    IF Len(after) = 0 THEN 0
    ELSE IF Len(before) = 0 THEN now
    ELSE first

\* The number of batch inserts that have failed in a row, after a call of
\* flushUnsafe with outcome o: a failed insert adds one, a flush that emptied
\* the buffer starts again from zero, a call that ran no insert leaves it.
InsertFailures(n, o) ==
    IF o.err THEN n + 1
    ELSE IF Len(o.buffer) = 0 THEN 0
    ELSE n

\* The time of the last failed batch insert, after a call with outcome o.
FailedAt(at, o, now) ==
    IF o.err THEN now
    ELSE IF Len(o.buffer) = 0 THEN 0
    ELSE at

\* NewTradeHistoryLogger(db, MaxBuffer)
InitLoggerIdle ==
    /\ buffer = <<>>
    /\ logErr = FALSE
    /\ firstLoggedAt = 0
    /\ insertFailures = 0
    /\ failedAt = 0
    /\ accepted = <<>>
    /\ lastCall = "none"

\* The logger over an empty TRADE_HISTORY.
InitLogger ==
    /\ InitLoggerIdle
    /\ InitStoreIdle

\* LogOrderExecution(order); a nil order is refused with an error.
LogOrderExecution ==
    /\ Len(tradeHistory) + Len(buffer) < MaxHistory
    /\ \/ /\ logErr' = TRUE
          /\ lastCall' = "nil"
          /\ UNCHANGED <<buffer, firstLoggedAt, tradeHistory, insertFailures, failedAt,
                         accepted>>
       \/ \E order \in OrderExecutions :
            \E o \in LogOrderExecutionResult(buffer, tradeHistory, MaxBuffer, order) :
               /\ o.err => insertFailures < MaxFailures
               /\ Len(o.table) <= MaxHistory
               /\ accepted' = Append(accepted, order)
               /\ lastCall' = "order"
               /\ buffer' = o.buffer
               /\ tradeHistory' = o.table
               /\ logErr' = o.err
               /\ firstLoggedAt' = FirstLoggedAt(buffer, o.buffer, firstLoggedAt, dbNow)
               /\ insertFailures' = InsertFailures(insertFailures, o)
               /\ failedAt' = FailedAt(failedAt, o, dbNow)
    /\ UNCHANGED <<daemonState, dbNow>>
    /\ UNCHANGED <<subVars, arbVars, trackerVars, fetcherVars, procVars, connVars, poolVars, snapVars>>

\* Flush(), called by the owner of the logger.
Flush ==
    /\ \E o \in flushUnsafe(buffer, tradeHistory) :
          /\ o.err => insertFailures < MaxFailures
          /\ Len(o.table) <= MaxHistory
          /\ UNCHANGED accepted
          /\ lastCall' = "flush"
          /\ buffer' = o.buffer
          /\ tradeHistory' = o.table
          /\ logErr' = o.err
          /\ firstLoggedAt' = FirstLoggedAt(buffer, o.buffer, firstLoggedAt, dbNow)
          /\ insertFailures' = InsertFailures(insertFailures, o)
          /\ failedAt' = FailedAt(failedAt, o, dbNow)
    /\ UNCHANGED <<daemonState, dbNow>>
    /\ UNCHANGED <<subVars, arbVars, trackerVars, fetcherVars, procVars, connVars, poolVars, snapVars>>

NextLogger ==
    \/ LogOrderExecution
    \/ Flush
    \/ Tick

-----------------------------------------------------------------------------
(* Part V - task.Fetcher                                                   *)

\* What fetchMonitoringTasks can return: an error, or the monitor tasks of the
\* store (here: those of one venue at one depth).
MonitoringResults ==
    { [err |-> TRUE, tasks |-> <<>>] } \cup
    { [err |-> FALSE, tasks |-> m] :
        m \in SeqsUpTo({ t \in MonitoringTasks :
                           t.ExchangeID = binance /\ t.OrderbookDepth = 20 },
                       MaxFetched) }

\* What fetchTradingTasks can return.
TradingResults ==
    { [err |-> TRUE, tasks |-> <<>>] } \cup
    { [err |-> FALSE, tasks |-> t] :
        t \in SeqsUpTo({ t \in TradingTasks : t.ExchangeID = binance }, MaxFetched) }

\* fetchTasks with the monitoring query answered before the trading query is
\* sent, and f.lastMonitoring assigned as soon as its query has answered.
fetchTasksAssigningEarly(lastM, lastT, monitoring, trading) ==
    IF monitoring.err
    THEN [lastMonitoring |-> lastM, lastTrading |-> lastT, err |-> "monitoring"]
    ELSE IF trading.err
    THEN [lastMonitoring |-> monitoring.tasks, lastTrading |-> lastT, err |-> "trading"]
    ELSE [lastMonitoring |-> monitoring.tasks, lastTrading |-> trading.tasks,
          err |-> "nil"]

\* fetchTasks: both queries run first, each failure returns at once; the two
\* fields are assigned together under f.mu only when both have succeeded.
fetchTasks(lastM, lastT, monitoring, trading) ==
    IF monitoring.err
    THEN [lastMonitoring |-> lastM, lastTrading |-> lastT, err |-> "monitoring"]
    ELSE IF trading.err
    THEN [lastMonitoring |-> lastM, lastTrading |-> lastT, err |-> "trading"]
    ELSE [lastMonitoring |-> monitoring.tasks, lastTrading |-> trading.tasks,
          err |-> "nil"]

\* copyMonitoringTasks / copyTradingTasks: a new slice holding a copy of each task.
copyTasks(tasks) == [i \in 1..Len(tasks) |-> tasks[i]]

\* GetLast()
GetLast(lastM, lastT, now) ==
    [Timestamp |-> now,
     MonitoringTasks |-> copyTasks(lastM),
     TradingTasks |-> copyTasks(lastT)]

\* NewFetcher(db, interval)
InitFetcherIdle ==
    /\ fLastMonitoring = <<>>
    /\ fLastTrading = <<>>
    /\ fState = "new"
    /\ fErr = "nil"
    /\ fPolls = 0
    /\ fQueried = <<>>

InitFetcher ==
    /\ InitFetcherIdle
    /\ InitStoreIdle

\* Start(ctx): the first fetchTasks; a failure is returned and the loop is not
\* started.
FetcherStart ==
    /\ fState = "new"
    /\ \E monitoring \in MonitoringResults, trading \in TradingResults :
          LET o == fetchTasks(fLastMonitoring, fLastTrading, monitoring, trading)
          IN  /\ fLastMonitoring' = o.lastMonitoring
              /\ fLastTrading' = o.lastTrading
              /\ fErr' = o.err
              /\ fState' = IF o.err = "nil" THEN "running" ELSE "failed"
              /\ fQueried' = monitoring.tasks
    /\ fPolls' = fPolls + 1
    /\ UNCHANGED <<subVars, arbVars, storeVars, trackerVars, loggerVars, procVars, connVars, poolVars, snapVars>>

\* fetchLoop, case <-ticker.C: fetchTasks; an error is printed and the loop
\* goes back to its select.
FetchTick ==
    /\ fState = "running"
    /\ fPolls < MaxPolls
    /\ \E monitoring \in MonitoringResults, trading \in TradingResults :
          LET o == fetchTasks(fLastMonitoring, fLastTrading, monitoring, trading)
          IN  /\ fLastMonitoring' = o.lastMonitoring
              /\ fLastTrading' = o.lastTrading
              /\ fErr' = o.err
              /\ fQueried' = monitoring.tasks
    /\ fPolls' = fPolls + 1
    /\ UNCHANGED fState
    /\ UNCHANGED <<subVars, arbVars, storeVars, trackerVars, loggerVars, procVars, connVars, poolVars, snapVars>>

\* Stop(): cancel, then wait for fetchLoop to return.
FetcherStop ==
    /\ fState = "running"
    /\ fState' = "stopped"
    /\ UNCHANGED <<fLastMonitoring, fLastTrading, fErr, fPolls, fQueried>>
    /\ UNCHANGED <<subVars, arbVars, storeVars, trackerVars, loggerVars, procVars, connVars, poolVars, snapVars>>

NextFetcher ==
    \/ FetcherStart
    \/ FetchTick
    \/ FetcherStop

-----------------------------------------------------------------------------
(* Part VI - state.Manager, manager.Manager and main of cmd/daemon         *)

ErrAlreadyRunning == "system is already running"
ErrNotRunning     == "system is not running"
DeadlineExceeded  == "context deadline exceeded"

\* The goroutines that call Start and Stop: the handlers of two control
\* requests served at once, and main.
ApiCallers == {"a1", "a2"}
Callers == ApiCallers \cup {"main"}

NoCall == [pc |-> "idle", op |-> "none", ret |-> "none", flip |-> FALSE]

\* A call has returned ret to its caller.
Returned(call, op, ret) ==
    [pc |-> "idle", op |-> op, ret |-> ret, flip |-> ~call.flip]

\* config.Load(path): ini.Load fails on a file that does not exist ("failed to
\* load config file"); a file that exists is parsed or refused.
configLoad(file) ==
    IF file = "absent" THEN { TRUE } ELSE { FALSE, TRUE }

\* state.GetInstance(): IsRunning starts false; Load overwrites it from the
\* file when the file can be read.
GetInstance(file) ==
    IF file = NULL THEN FALSE ELSE CHOOSE b \in file : TRUE

\* SetRunning(running): the flag in memory is set, then Save writes the file;
\* os.WriteFile succeeds or fails (the error is returned, memory keeps running).
SetRunning(file, running) ==
    { [mem |-> running, file |-> {running}, ret |-> "nil"],
      [mem |-> running, file |-> file, ret |-> "error"] }

\* Start without its check of m.isRunning.
StartResultUnchecked(isRunning, startTime, now) ==
    [ret |-> "nil", isRunning |-> TRUE, startTime |-> now, persist |-> TRUE]

\* Manager.Start, up to its call of SetRunning(true).
StartResult(isRunning, startTime, now) ==
    IF isRunning
    THEN [ret |-> ErrAlreadyRunning, isRunning |-> isRunning,
          startTime |-> startTime, persist |-> FALSE]
    ELSE [ret |-> "nil", isRunning |-> TRUE, startTime |-> now, persist |-> TRUE]

\* A Once whose Do returns at once while another Do is still running f.
OnceDoNotWaiting(once) ==
    IF once = "fresh" THEN "run" ELSE "skip"

\* sync.Once.Do(f): the first call runs f; a call made while f runs waits for
\* it to return; a later call returns without calling f.
OnceDo(once) ==
    IF once = "fresh" THEN "run"
    ELSE IF once = "running" THEN "wait"
    ELSE "skip"

\* The select of doStop with a timeout case that does not cancel m.ctx.
selectOutcomeWithoutCancel(branch, shutdownError, ctx) ==
    IF branch = "done"
    THEN [shutdownError |-> shutdownError, ctx |-> ctx]
    ELSE [shutdownError |-> DeadlineExceeded, ctx |-> ctx]

\* The select of doStop: case err := <-done (shutdownComponents always sends
\* nil), or case <-shutdownCtx.Done().
selectOutcome(branch, shutdownError, ctx) ==
    IF branch = "done"
    THEN [shutdownError |-> shutdownError, ctx |-> ctx]
    ELSE [shutdownError |-> DeadlineExceeded, ctx |-> "cancelled"]

\* main exits through os.Exit(1) with every failure and by returning (code 0)
\* after the shutdown that a signal began.
ExitCodeAlwaysZero(cause) == 0

ExitCode(cause) == IF cause = "signal" THEN 0 ELSE 1

\* The first steps of main: config.Load, logger.Init, db.Init; the first that
\* fails ends the process.
mainInit(cfgErr, logInitErr, dbErr) ==
    IF cfgErr THEN "config"
    ELSE IF logInitErr THEN "logger"
    ELSE IF dbErr THEN "db"
    ELSE "none"

\* doStop holds m.mu from its first statement until it returns.
muHeld == shutdownOnce = "running"

\* Whether goroutine c runs: a handler while the API server serves, main's
\* call of Stop once a signal has arrived.
CallerCanAct(c) ==
    IF c = "main"
    THEN mainPc = "stopping" /\ callers[c].op = "none"
    ELSE mainPc \in {"serving", "stopping"}

\* The memory of a process that has just been started.
InitMemory ==
    /\ stIsRunning = FALSE
    /\ lastSet = [r |-> FALSE, ret |-> "none"]
    /\ mIsRunning = FALSE
    /\ mStartTime = 0
    /\ mShutdownTime = 0
    /\ mShutdownError = "nil"
    /\ mCtx = "live"
    /\ shutdownOnce = "fresh"
    /\ graceTimer = "off"
    /\ comp = "none"
    /\ doStops = 0
    /\ callers = [c \in Callers |-> NoCall]
    /\ exitCode = -1
    /\ exitCause = "none"
    /\ autoStarted = FALSE
    /\ startedInRun = FALSE

\* No daemon process.
InitProcIdle ==
    /\ configFile = "present"
    /\ stateFile = NULL
    /\ InitMemory
    /\ mainPc = "boot"
    /\ run = 1
    /\ wasRunning = FALSE

\* The first daemon process is about to run main; the state file is what an
\* earlier process left.
InitDaemon ==
    /\ configFile \in {"present", "absent"}
    /\ stateFile \in {NULL, {TRUE}, {FALSE}}
    /\ InitMemory
    /\ mainPc = "boot"
    /\ run = 1
    /\ wasRunning = (stateFile = {TRUE})
    /\ InitStoreIdle

\* A process past manager.New whose manager main did not start.
InitManager ==
    /\ configFile = "present"
    /\ stateFile \in {NULL, {TRUE}, {FALSE}}
    /\ lastSet = [r |-> FALSE, ret |-> "none"]
    /\ stIsRunning = FALSE
    /\ mIsRunning = FALSE
    /\ mStartTime = 0
    /\ mShutdownTime = 0
    /\ mShutdownError = "nil"
    /\ mCtx = "live"
    /\ shutdownOnce = "fresh"
    /\ graceTimer = "off"
    /\ comp = "none"
    /\ doStops = 0
    /\ callers = [c \in Callers |-> NoCall]
    /\ exitCode = -1
    /\ exitCause = "none"
    /\ autoStarted = FALSE
    /\ startedInRun = FALSE
    /\ mainPc = "serving"
    /\ run = 1
    /\ wasRunning = FALSE
    /\ InitStoreIdle

mainVars == <<mainPc, exitCode, exitCause, run, wasRunning, autoStarted, configFile>>

\* Manager.Start()
ManagerStart(c) ==
    /\ c # "main"
    /\ CallerCanAct(c)
    /\ callers[c].pc = "idle"
    /\ ~muHeld
    /\ LET r == StartResult(mIsRunning, mStartTime, dbNow)
       IN  /\ mIsRunning' = r.isRunning
           /\ mStartTime' = r.startTime
           /\ IF r.persist
              THEN \E o \in SetRunning(stateFile, TRUE) :
                      /\ stIsRunning' = o.mem
                      /\ stateFile' = o.file
                      /\ lastSet' = [r |-> TRUE, ret |-> o.ret]
              ELSE UNCHANGED <<stIsRunning, stateFile, lastSet>>
           /\ callers' = [callers EXCEPT ![c] = Returned(@, "Start", r.ret)]
           /\ startedInRun' = (startedInRun \/ r.ret = "nil")
    /\ UNCHANGED <<mShutdownTime, mShutdownError, mCtx, shutdownOnce, graceTimer,
                   comp, doStops, mainVars>>
    /\ UNCHANGED <<subVars, arbVars, storeVars, trackerVars, loggerVars, fetcherVars, connVars, poolVars, snapVars>>

\* Manager.Stop(), its read of m.isRunning under RLock.
ManagerStopCheck(c) ==
    /\ CallerCanAct(c)
    /\ callers[c].pc = "idle"
    /\ ~muHeld
    /\ callers' = [callers EXCEPT ![c] =
                     IF ~mIsRunning
                     THEN Returned(@, "Stop", ErrNotRunning)
                     ELSE [pc |-> "atOnce", op |-> "Stop", ret |-> "none",
                           flip |-> @.flip]]
    /\ UNCHANGED <<stateFile, stIsRunning, lastSet, mIsRunning, mStartTime,
                   mShutdownTime, mShutdownError, mCtx, shutdownOnce, graceTimer,
                   comp, doStops, startedInRun, mainVars>>
    /\ UNCHANGED <<subVars, arbVars, storeVars, trackerVars, loggerVars, fetcherVars, connVars, poolVars, snapVars>>

\* Manager.Stop(), m.shutdownOnce.Do: the call that runs doStop marks the
\* manager stopped, persists the flag and starts shutdownComponents, then
\* waits in the select; a call that does not run it returns m.shutdownError.
ManagerStopOnce(c) ==
    /\ callers[c].pc = "atOnce"
    /\ mainPc \in {"serving", "stopping"}
    /\ \/ /\ OnceDo(shutdownOnce) = "run"
          /\ mIsRunning
          /\ mIsRunning' = FALSE
          /\ mShutdownTime' = dbNow
          /\ \E o \in SetRunning(stateFile, FALSE) :
                /\ stIsRunning' = o.mem
                /\ stateFile' = o.file
                /\ lastSet' = [r |-> FALSE, ret |-> o.ret]
          /\ graceTimer' = "armed"
          /\ comp' = "stopping"
          /\ shutdownOnce' = "running"
          /\ doStops' = doStops + 1
          /\ callers' = [callers EXCEPT ![c].pc = "inDoStop"]
          /\ UNCHANGED <<mShutdownError, mCtx>>
       \/ /\ OnceDo(shutdownOnce) = "run"
          /\ ~mIsRunning
          /\ shutdownOnce' = "done"
          /\ callers' = [callers EXCEPT ![c] = Returned(@, "Stop", mShutdownError)]
          /\ UNCHANGED <<stateFile, stIsRunning, lastSet, mIsRunning, mShutdownTime,
                         mShutdownError, mCtx, graceTimer, comp, doStops>>
       \/ /\ OnceDo(shutdownOnce) = "skip"
          /\ callers' = [callers EXCEPT ![c] = Returned(@, "Stop", mShutdownError)]
          /\ UNCHANGED <<stateFile, stIsRunning, lastSet, mIsRunning, mShutdownTime,
                         mShutdownError, mCtx, shutdownOnce, graceTimer, comp, doStops>>
    /\ UNCHANGED <<mStartTime, startedInRun, mainVars>>
    /\ UNCHANGED <<subVars, arbVars, storeVars, trackerVars, loggerVars, fetcherVars, connVars, poolVars, snapVars>>

\* shutdownComponents: cancels m.ctx and sends on done.
ShutdownComponents ==
    /\ comp = "stopping"
    /\ mainPc \in {"serving", "stopping"}
    /\ mCtx' = "cancelled"
    /\ comp' = "done"
    /\ UNCHANGED <<stateFile, stIsRunning, lastSet, mIsRunning, mStartTime,
                   mShutdownTime, mShutdownError, shutdownOnce, graceTimer,
                   doStops, callers, startedInRun, mainVars>>
    /\ UNCHANGED <<subVars, arbVars, storeVars, trackerVars, loggerVars, fetcherVars, connVars, poolVars, snapVars>>

\* GracefulShutdownTimeout has passed since doStop made shutdownCtx.
GraceExpires ==
    /\ graceTimer = "armed"
    /\ mainPc \in {"serving", "stopping"}
    /\ graceTimer' = "expired"
    /\ UNCHANGED <<stateFile, stIsRunning, lastSet, mIsRunning, mStartTime,
                   mShutdownTime, mShutdownError, mCtx, shutdownOnce, comp,
                   doStops, callers, startedInRun, mainVars>>
    /\ UNCHANGED <<subVars, arbVars, storeVars, trackerVars, loggerVars, fetcherVars, connVars, poolVars, snapVars>>

\* doStop, its select and its return; Stop then returns m.shutdownError.
ManagerDoStopEnd(c) ==
    /\ callers[c].pc = "inDoStop"
    /\ mainPc \in {"serving", "stopping"}
    /\ \E branch \in {"done", "timeout"} :
          /\ branch = "done" => comp = "done"
          /\ branch = "timeout" => graceTimer = "expired"
          /\ LET o == selectOutcome(branch, mShutdownError, mCtx)
             IN  /\ mShutdownError' = o.shutdownError
                 /\ mCtx' = o.ctx
                 /\ callers' = [callers EXCEPT ![c] =
                                  Returned(@, "Stop", o.shutdownError)]
    /\ shutdownOnce' = "done"
    /\ graceTimer' = "off"
    /\ UNCHANGED <<stateFile, stIsRunning, lastSet, mIsRunning, mStartTime,
                   mShutdownTime, comp, doStops, startedInRun, mainVars>>
    /\ UNCHANGED <<subVars, arbVars, storeVars, trackerVars, loggerVars, fetcherVars, connVars, poolVars, snapVars>>

\* main from its first statement to the start of the API server: a failure of
\* config.Load, logger.Init or db.Init exits; otherwise manager.New, and
\* mgr.Start() when the state file says the daemon was running.
Boot ==
    /\ mainPc = "boot"
    /\ \E cfgErr \in configLoad(configFile), logInitErr \in BOOLEAN, dbErr \in BOOLEAN :
          LET cause == mainInit(cfgErr, logInitErr, dbErr)
              loaded == GetInstance(stateFile)
              r == StartResult(FALSE, 0, dbNow)
          IN  IF cause # "none"
              THEN /\ mainPc' = "exited"
                   /\ exitCause' = cause
                   /\ exitCode' = ExitCode(cause)
                   /\ UNCHANGED <<stateFile, stIsRunning, lastSet, mIsRunning,
                                  mStartTime, autoStarted, startedInRun>>
              ELSE /\ mainPc' = "serving"
                   /\ UNCHANGED <<exitCause, exitCode>>
                   /\ autoStarted' = loaded
                   /\ startedInRun' = loaded
                   /\ IF loaded
                      THEN /\ mIsRunning' = r.isRunning
                           /\ mStartTime' = r.startTime
                           /\ \E o \in SetRunning(stateFile, TRUE) :
                                 /\ stIsRunning' = o.mem
                                 /\ stateFile' = o.file
                                 /\ lastSet' = [r |-> TRUE, ret |-> o.ret]
                      ELSE /\ stIsRunning' = loaded
                           /\ UNCHANGED <<stateFile, lastSet, mIsRunning, mStartTime>>
    /\ UNCHANGED <<configFile, run, wasRunning, mShutdownTime, mShutdownError, mCtx,
                   shutdownOnce, graceTimer, comp, doStops, callers>>
    /\ UNCHANGED <<subVars, arbVars, storeVars, trackerVars, loggerVars, fetcherVars, connVars, poolVars, snapVars>>

\* The goroutine of the API server: apiServer.Start() returned an error.
ApiServerFails ==
    /\ mainPc \in {"serving", "stopping"}
    /\ mainPc' = "exited"
    /\ exitCause' = "api"
    /\ exitCode' = ExitCode("api")
    /\ wasRunning' = IF mainPc = "serving" THEN mIsRunning ELSE wasRunning
    /\ UNCHANGED <<configFile, run, autoStarted, startedInRun, stateFile, stIsRunning,
                   lastSet, mIsRunning, mStartTime, mShutdownTime, mShutdownError,
                   mCtx, shutdownOnce, graceTimer, comp, doStops, callers>>
    /\ UNCHANGED <<subVars, arbVars, storeVars, trackerVars, loggerVars, fetcherVars, connVars, poolVars, snapVars>>

\* SIGINT or SIGTERM arrives on sigChan; main goes on to call mgr.Stop().
Signal ==
    /\ mainPc = "serving"
    /\ mainPc' = "stopping"
    /\ wasRunning' = mIsRunning
    /\ UNCHANGED <<configFile, run, autoStarted, startedInRun, exitCode, exitCause,
                   stateFile, stIsRunning, lastSet, mIsRunning, mStartTime,
                   mShutdownTime, mShutdownError, mCtx, shutdownOnce, graceTimer,
                   comp, doStops, callers>>
    /\ UNCHANGED <<subVars, arbVars, storeVars, trackerVars, loggerVars, fetcherVars, connVars, poolVars, snapVars>>

\* main returns after its mgr.Stop() has returned (an error is only logged).
MainExit ==
    /\ mainPc = "stopping"
    /\ callers["main"].op = "Stop"
    /\ callers["main"].pc = "idle"
    /\ mainPc' = "exited"
    /\ exitCause' = "signal"
    /\ exitCode' = ExitCode("signal")
    /\ UNCHANGED <<configFile, run, wasRunning, autoStarted, startedInRun,
                   stateFile, stIsRunning, lastSet, mIsRunning, mStartTime,
                   mShutdownTime, mShutdownError, mCtx, shutdownOnce, graceTimer,
                   comp, doStops, callers>>
    /\ UNCHANGED <<subVars, arbVars, storeVars, trackerVars, loggerVars, fetcherVars, connVars, poolVars, snapVars>>

\* The process is killed (SIGKILL, power loss): no statement of it runs.
Crash ==
    /\ mainPc \in {"serving", "stopping"}
    /\ mainPc' = "exited"
    /\ exitCause' = "crash"
    /\ exitCode' = 137
    /\ wasRunning' = IF mainPc = "serving" THEN mIsRunning ELSE wasRunning
    /\ UNCHANGED <<configFile, run, autoStarted, startedInRun, stateFile, stIsRunning,
                   lastSet, mIsRunning, mStartTime, mShutdownTime, mShutdownError,
                   mCtx, shutdownOnce, graceTimer, comp, doStops, callers>>
    /\ UNCHANGED <<subVars, arbVars, storeVars, trackerVars, loggerVars, fetcherVars, connVars, poolVars, snapVars>>

\* The daemon is started again: a new process with the files the last one left.
Restart ==
    /\ mainPc = "exited"
    /\ run < MaxRuns
    /\ run' = run + 1
    /\ mainPc' = "boot"
    /\ stIsRunning' = FALSE
    /\ lastSet' = [r |-> FALSE, ret |-> "none"]
    /\ mIsRunning' = FALSE
    /\ mStartTime' = 0
    /\ mShutdownTime' = 0
    /\ mShutdownError' = "nil"
    /\ mCtx' = "live"
    /\ shutdownOnce' = "fresh"
    /\ graceTimer' = "off"
    /\ comp' = "none"
    /\ doStops' = 0
    /\ callers' = [c \in Callers |-> NoCall]
    /\ exitCode' = -1
    /\ exitCause' = "none"
    /\ autoStarted' = FALSE
    /\ startedInRun' = FALSE
    /\ UNCHANGED <<configFile, stateFile, wasRunning>>
    /\ UNCHANGED <<subVars, arbVars, storeVars, trackerVars, loggerVars, fetcherVars, connVars, poolVars, snapVars>>

\* The manager driven by two control requests at once.
NextShutdown ==
    \/ \E c \in ApiCallers : ManagerStart(c)
    \/ \E c \in ApiCallers : ManagerStopCheck(c)
    \/ \E c \in ApiCallers : ManagerStopOnce(c)
    \/ \E c \in ApiCallers : ManagerDoStopEnd(c)
    \/ ShutdownComponents
    \/ GraceExpires

NextManager ==
    \/ NextShutdown
    \/ Tick

\* The daemon process, one control request at a time.
NextDaemon ==
    \/ Boot
    \/ \E c \in {"a1", "main"} : ManagerStart(c)
    \/ \E c \in {"a1", "main"} : ManagerStopCheck(c)
    \/ \E c \in {"a1", "main"} : ManagerStopOnce(c)
    \/ \E c \in {"a1", "main"} : ManagerDoStopEnd(c)
    \/ ShutdownComponents
    \/ GraceExpires
    \/ ApiServerFails
    \/ Signal
    \/ MainExit
    \/ Crash
    \/ Restart

-----------------------------------------------------------------------------
(* Part VII - db.ConnectWithRetry                                          *)

\* cfg.MaxRetries is drawn from -1..MaxRetriesLimit.
MaxRetriesLimit == 76

\* A Go int is 64 bits wide and the integers here are 32 bits wide.  A value
\* above every integer here is kept as Huge, and the most negative int as
\* IntMin: the code only compares such a value with 300.
Huge == 2 ^ 30

IntMin == 0 - 2 ^ 30

\* int(math.Pow(2, float64(e))): exact up to 2^62.  2^63 and above (+Inf from
\* e = 1024) are outside int64, and the value of the conversion depends on the
\* implementation: amd64 gives the most negative int, arm64 the largest.
IntOfPow2(e) ==
    IF e <= 29 THEN { 2 ^ e }
    ELSE IF e <= 62 THEN { Huge }
    ELSE { IntMin, Huge }

\* calculateBackoffInterval(attempt): every value it can return.
calculateBackoffInterval(n) ==
    IF n <= 10 THEN { 0 }
    ELSE LET backoffMultiplier == n - 10
         IN  { IF interval > 300 THEN 300 ELSE interval :
                 interval \in IntOfPow2(backoffMultiplier - 1) }

\* `if attempt < maxRetries` with the condition always true.
moreAttemptsAlways(a, m) == TRUE

\* `if attempt < maxRetries`: this is not the last attempt.
moreAttempts(a, m) == a < m

\* Before ConnectWithRetry is called: the global driver is nil.
InitConnectIdle ==
    /\ cfgMaxRetries = 0
    /\ maxRetries = 0
    /\ attempt = 0
    /\ lastErr = 0
    /\ driver = 0
    /\ cPc = "start"
    /\ cResult = "none"
    /\ backoffs = <<>>
    /\ connects = 0

\* The same, with any max_retries in the configuration.
InitConnect ==
    /\ cfgMaxRetries \in -1..MaxRetriesLimit
    /\ maxRetries = 0
    /\ attempt = 0
    /\ lastErr = 0
    /\ driver = 0
    /\ cPc = "start"
    /\ cResult = "none"
    /\ backoffs = <<>>
    /\ connects = 0

\* ConnectWithRetry up to the loop: maxRetries is at least 1.
ConnectBegin ==
    /\ cPc = "start"
    /\ maxRetries' = IF cfgMaxRetries <= 0 THEN 1 ELSE cfgMaxRetries
    /\ attempt' = 1
    /\ cPc' = "connect"
    /\ UNCHANGED <<cfgMaxRetries, lastErr, driver, cResult, backoffs, connects>>
    /\ UNCHANGED <<subVars, arbVars, storeVars, trackerVars, loggerVars, fetcherVars, procVars, poolVars, snapVars>>

\* One pass of the loop body, up to time.Sleep: d.Connect() succeeds (the
\* driver is stored and nil returned) or fails.  After a failure that is not
\* the last attempt the backoff is computed and the function sleeps; after the
\* last one the loop ends and the error is returned.
ConnectAttempt ==
    /\ cPc = "connect"
    /\ connects' = connects + 1
    /\ \/ /\ driver' = attempt
          /\ cResult' = "nil"
          /\ cPc' = "returned"
          /\ UNCHANGED <<lastErr, backoffs, attempt>>
       \/ /\ lastErr' = attempt
          /\ IF moreAttempts(attempt, maxRetries)
             THEN /\ \E backoffInterval \in calculateBackoffInterval(attempt) :
                        backoffs' = Append(backoffs, backoffInterval)
                  /\ cPc' = "sleep"
                  /\ UNCHANGED <<attempt, cResult>>
             ELSE /\ attempt' = attempt + 1
                  /\ cResult' = "error"
                  /\ cPc' = "returned"
                  /\ UNCHANGED backoffs
          /\ UNCHANGED driver
    /\ UNCHANGED <<cfgMaxRetries, maxRetries>>
    /\ UNCHANGED <<subVars, arbVars, storeVars, trackerVars, loggerVars, fetcherVars, procVars, poolVars, snapVars>>

\* time.Sleep returns: `continue`, attempt++.
SleepReturns ==
    /\ cPc = "sleep"
    /\ attempt' = attempt + 1
    /\ cPc' = IF attempt + 1 <= maxRetries THEN "connect" ELSE "returned"
    /\ cResult' = IF attempt + 1 <= maxRetries THEN cResult ELSE "error"
    /\ UNCHANGED <<cfgMaxRetries, maxRetries, lastErr, driver, backoffs, connects>>
    /\ UNCHANGED <<subVars, arbVars, storeVars, trackerVars, loggerVars, fetcherVars, procVars, poolVars, snapVars>>

NextConnect ==
    \/ ConnectBegin
    \/ ConnectAttempt
    \/ SleepReturns

-----------------------------------------------------------------------------
(* Part VIII - ws.Pool: correlation of event_id and request_id             *)

\* correlationTTL, in hours.
correlationTTL == 24

\* The clock moves in steps of TickHours up to MaxWsClock.
TickHours == 12

MaxWsClock == 36

\* Event ids made per prefix, and rows of ws_in written.
MaxEvents == 1

MaxInbound == 2

\* The goroutines that log inbound messages.
Readers == { "r1", "r2" }

\* An event id: prefix and random part; NoEvent is the empty string.
NoEvent == [prefix |-> "", n |-> 0]

EventIDs == { [prefix |-> p, n |-> k] : p \in { "ws-sub", "ws-unsub" }, k \in 1..MaxEvents }

\* request_id of an API request ("": none), and the pair lists of a call.
RequestIDs == { "", "req-1" }

PairLists == { <<>>, <<BTCUSDT>> }

EmptyFunction == [x \in {} |-> x]

Without(m, eventID) == [x \in DOMAIN m \ { eventID } |-> m[x]]

\* newEventID(prefix): eight random bytes, taken to differ from every id made
\* before.
newEventID(prefix, made) ==
    CHOOSE id \in EventIDs :
        /\ id.prefix = prefix
        /\ id \notin made
        /\ \A other \in EventIDs :
              (other.prefix = prefix /\ other \notin made) => id.n <= other.n

\* rememberCorrelation(eventID, requestID): the map after the call.
rememberCorrelation(m, eventID, requestID, now) ==
    IF eventID = NoEvent \/ requestID = ""
    THEN m
    ELSE [x \in DOMAIN m \cup { eventID } |->
            IF x = eventID THEN [requestID |-> requestID, createdAt |-> now]
            ELSE m[x]]

\* requestIDByEvent without the check of the age of the entry.
requestIDByEventIgnoringTTL(m, eventID, now) ==
    IF eventID \notin DOMAIN m
    THEN [map |-> m, requestID |-> "", correlated |-> FALSE]
    ELSE [map |-> Without(m, eventID), requestID |-> m[eventID].requestID,
          correlated |-> TRUE]

\* requestIDByEvent that leaves the entry in the map.
requestIDByEventKeeping(m, eventID, now) ==
    IF eventID \notin DOMAIN m
    THEN [map |-> m, requestID |-> "", correlated |-> FALSE]
    ELSE IF now - m[eventID].createdAt > correlationTTL
    THEN [map |-> Without(m, eventID), requestID |-> "", correlated |-> FALSE]
    ELSE [map |-> m, requestID |-> m[eventID].requestID, correlated |-> TRUE]

\* requestIDByEvent(eventID), under p.mu: the map after the call and what is
\* returned.
requestIDByEvent(m, eventID, now) ==
    IF eventID \notin DOMAIN m
    THEN [map |-> m, requestID |-> "", correlated |-> FALSE]
    ELSE IF now - m[eventID].createdAt > correlationTTL
    THEN [map |-> Without(m, eventID), requestID |-> "", correlated |-> FALSE]
    ELSE [map |-> Without(m, eventID), requestID |-> m[eventID].requestID,
          correlated |-> TRUE]

\* cleanupExpiredCorrelations(now): entries created before now - TTL go.
cleanupExpiredCorrelations(m, now) ==
    LET cutoff == now - correlationTTL
    IN  [x \in { y \in DOMAIN m : ~(m[y].createdAt < cutoff) } |-> m[x]]

NoMessage ==
    [eventID |-> NoEvent, carried |-> "", requestID |-> "", returned |-> FALSE,
     inTime |-> FALSE, correlated |-> FALSE]

\* The number of rows of ws_in that record message x, and the number of all
\* its rows.
Written(x) == IF x \in DOMAIN wsIn THEN wsIn[x] ELSE 0

RECURSIVE SumOver(_, _)
SumOver(f, xs) ==
    IF xs = {} THEN 0
    ELSE LET x == CHOOSE y \in xs : TRUE
         IN  f[x] + SumOver(f, xs \ { x })

WrittenRows == SumOver(wsIn, DOMAIN wsIn)

\* NewPool() before any call.
InitPoolIdle ==
    /\ eventToRequestID = EmptyFunction
    /\ wsNow = 0
    /\ issued = EmptyFunction
    /\ rPc = [r \in Readers |-> "idle"]
    /\ rMsg = [r \in Readers |-> NoMessage]
    /\ wsIn = EmptyFunction
    /\ rejected = FALSE
    /\ cleaned = FALSE

\* SubscribeWithRequestID and UnsubscribeWithRequestID (op is "ws-sub" or
\* "ws-unsub"): an empty pair list is refused before an event id is made;
\* otherwise the event id is made, remembered and returned.
WithRequestID(op, pairs, requestID) ==
    /\ IF Len(pairs) = 0
       THEN /\ rejected' = TRUE
            /\ UNCHANGED <<eventToRequestID, issued>>
       ELSE /\ \E id \in EventIDs : id.prefix = op /\ id \notin DOMAIN issued
            /\ LET eventID == newEventID(op, DOMAIN issued)
               IN  /\ eventToRequestID' =
                         rememberCorrelation(eventToRequestID, eventID, requestID, wsNow)
                   /\ issued' =
                         [x \in DOMAIN issued \cup { eventID } |->
                             IF x = eventID
                             THEN [requestID |-> requestID, at |-> wsNow]
                             ELSE issued[x]]
                   /\ UNCHANGED rejected
    /\ UNCHANGED <<wsNow, rPc, rMsg, wsIn, cleaned>>
    /\ UNCHANGED <<subVars, arbVars, storeVars, trackerVars, loggerVars, fetcherVars, procVars, connVars, snapVars>>

\* LogInboundMessage of goroutine r up to the log call: a message without
\* request id and with an event id is looked up.
LogInboundLookup(r, eventID, carried) ==
    /\ rPc[r] = "idle"
    /\ WrittenRows + Cardinality({ x \in Readers : rPc[x] = "looked" }) < MaxInbound
    /\ LET look == IF carried = "" /\ eventID # NoEvent
                   THEN requestIDByEvent(eventToRequestID, eventID, wsNow)
                   ELSE [map |-> eventToRequestID, requestID |-> carried,
                         correlated |-> FALSE]
       IN  /\ eventToRequestID' = look.map
           /\ rMsg' = [rMsg EXCEPT ![r] =
                          [eventID |-> eventID, carried |-> carried,
                           requestID |-> look.requestID,
                           returned |-> eventID \in DOMAIN issued,
                           inTime |-> /\ eventID \in DOMAIN issued
                                      /\ wsNow - issued[eventID].at <= correlationTTL,
                           correlated |-> look.correlated]]
    /\ rPc' = [rPc EXCEPT ![r] = "looked"]
    /\ UNCHANGED <<wsNow, issued, wsIn, rejected, cleaned>>
    /\ UNCHANGED <<subVars, arbVars, storeVars, trackerVars, loggerVars, fetcherVars, procVars, connVars, snapVars>>

\* LogInboundMessage of goroutine r: p.wsInLog.Info.
LogInboundWrite(r) ==
    /\ rPc[r] = "looked"
    /\ wsIn' = [x \in DOMAIN wsIn \cup { rMsg[r] } |->
                  IF x = rMsg[r] THEN Written(x) + 1 ELSE wsIn[x]]
    /\ rPc' = [rPc EXCEPT ![r] = "idle"]
    /\ rMsg' = [rMsg EXCEPT ![r] = NoMessage]
    /\ UNCHANGED <<eventToRequestID, wsNow, issued, rejected, cleaned>>
    /\ UNCHANGED <<subVars, arbVars, storeVars, trackerVars, loggerVars, fetcherVars, procVars, connVars, snapVars>>

\* correlationCleanupLoop: the ticker fires.
CleanupTick ==
    /\ eventToRequestID' = cleanupExpiredCorrelations(eventToRequestID, wsNow)
    /\ cleaned' = TRUE
    /\ UNCHANGED <<wsNow, issued, rPc, rMsg, wsIn, rejected>>
    /\ UNCHANGED <<subVars, arbVars, storeVars, trackerVars, loggerVars, fetcherVars, procVars, connVars, snapVars>>

\* Time passes.
WsTick ==
    /\ wsNow + TickHours <= MaxWsClock
    /\ wsNow' = wsNow + TickHours
    /\ cleaned' = FALSE
    /\ UNCHANGED <<eventToRequestID, issued, rPc, rMsg, wsIn, rejected>>
    /\ UNCHANGED <<subVars, arbVars, storeVars, trackerVars, loggerVars, fetcherVars, procVars, connVars, snapVars>>

NextPool ==
    \/ \E pairs \in PairLists, requestID \in RequestIDs :
          WithRequestID("ws-sub", pairs, requestID)
    \/ \E pairs \in PairLists, requestID \in RequestIDs :
          WithRequestID("ws-unsub", pairs, requestID)
    \/ \E r \in Readers, eventID \in EventIDs \cup { NoEvent }, carried \in { "", "req-in" } :
          LogInboundLookup(r, eventID, carried)
    \/ \E r \in Readers : LogInboundWrite(r)
    \/ CleanupTick
    \/ WsTick

-----------------------------------------------------------------------------
(* Part IX - task.Fetcher in memory: fetchTasks against callers of GetLast  *)
(* Here f.lastMonitoring and f.lastTrading hold pointers: addresses of heap. *)

\* GetLast is called at most MaxGets times.
MaxGets == 2

\* The goroutines that call GetLast.
Getters == { "g1", "g2" }

\* A task struct as fetchMonitoringTasks and fetchTradingTasks build it: all
\* its fields are strings and numbers.  cycle is the fetchTasks call that built
\* it.
NewTask(cycle) == [TradePair |-> BTCUSDT, cycle |-> cycle]

\* What a caller writes into TradePair of a task it got.
Edited == ETHUSDT

NoData == [MonitoringTasks |-> <<>>, TradingTasks |-> <<>>, mCycle |-> 0, tCycle |-> 0]

\* f.mu.RLock() without waiting for the writer.
RLockFreeAlways(mu) == TRUE

\* f.mu.RLock() can go on: no writer holds the mutex.
RLockFree(mu) == ~mu.w

\* f.mu.Lock() can go on: nobody holds the mutex.
LockFree(mu) == ~mu.w /\ mu.r = {}

\* copyMonitoringTasks / copyTradingTasks over the heap: `taskCopy := *t;
\* result[i] = &taskCopy` allocates a struct per task and copies the fields.
copyTasksInHeap(h, tasks) ==
    [heap   |-> h \o [i \in 1..Len(tasks) |-> h[tasks[i]]],
     result |-> [i \in 1..Len(tasks) |-> Len(h) + i]]

\* NewFetcher: empty lists, nothing allocated.
InitSnapIdle ==
    /\ heap = <<>>
    /\ fMu = [w |-> FALSE, r |-> {}]
    /\ wPc = "idle"
    /\ wLocal = [monitoring |-> <<>>, trading |-> <<>>]
    /\ mCycle = 0
    /\ tCycle = 0
    /\ gPc = [g \in Getters |-> "idle"]
    /\ got = [g \in Getters |-> NoData]
    /\ gets = 0

\* fetchTasks, called by Start and then by fetchLoop, up to f.mu.Lock(): the
\* two queries.  A failed query returns the error; otherwise each query has
\* built its tasks.
FetchQueries ==
    /\ wPc = "idle"
    /\ fPolls < MaxPolls
    /\ fPolls' = fPolls + 1
    /\ \/ /\ fErr' \in { "monitoring", "trading" }
          /\ UNCHANGED <<heap, wLocal, wPc>>
       \/ /\ fErr' = "nil"
          /\ heap' = heap \o << NewTask(fPolls + 1), NewTask(fPolls + 1) >>
          /\ wLocal' = [monitoring |-> << Len(heap) + 1 >>,
                        trading |-> << Len(heap) + 2 >>]
          /\ wPc' = "queried"
    /\ UNCHANGED <<fLastMonitoring, fLastTrading, fState, fQueried>>
    /\ UNCHANGED <<fMu, mCycle, tCycle, gPc, got, gets>>
    /\ UNCHANGED <<subVars, arbVars, storeVars, trackerVars, loggerVars, procVars, connVars, poolVars>>

\* f.mu.Lock()
FetchLock ==
    /\ wPc = "queried"
    /\ LockFree(fMu)
    /\ fMu' = [fMu EXCEPT !.w = TRUE]
    /\ wPc' = "locked"
    /\ UNCHANGED <<fetcherVars, heap, wLocal, mCycle, tCycle, gPc, got, gets>>
    /\ UNCHANGED <<subVars, arbVars, storeVars, trackerVars, loggerVars, procVars, connVars, poolVars>>

\* f.lastMonitoring = monitoring
FetchAssignMonitoring ==
    /\ wPc = "locked"
    /\ fLastMonitoring' = wLocal.monitoring
    /\ mCycle' = fPolls
    /\ wPc' = "assignedMonitoring"
    /\ UNCHANGED <<fLastTrading, fState, fErr, fPolls, fQueried>>
    /\ UNCHANGED <<heap, fMu, wLocal, tCycle, gPc, got, gets>>
    /\ UNCHANGED <<subVars, arbVars, storeVars, trackerVars, loggerVars, procVars, connVars, poolVars>>

\* f.lastTrading = trading; return nil, with the deferred f.mu.Unlock().
FetchAssignTrading ==
    /\ wPc = "assignedMonitoring"
    /\ fLastTrading' = wLocal.trading
    /\ tCycle' = fPolls
    /\ fMu' = [fMu EXCEPT !.w = FALSE]
    /\ wPc' = "idle"
    /\ UNCHANGED <<fLastMonitoring, fState, fErr, fPolls, fQueried>>
    /\ UNCHANGED <<heap, wLocal, mCycle, gPc, got, gets>>
    /\ UNCHANGED <<subVars, arbVars, storeVars, trackerVars, loggerVars, procVars, connVars, poolVars>>

\* GetLast of caller g: f.mu.RLock()
GetRLock(g) ==
    /\ gPc[g] = "idle"
    /\ gets < MaxGets
    /\ RLockFree(fMu)
    /\ fMu' = [fMu EXCEPT !.r = @ \cup { g }]
    /\ gPc' = [gPc EXCEPT ![g] = "rlocked"]
    /\ got' = [got EXCEPT ![g] = NoData]
    /\ gets' = gets + 1
    /\ UNCHANGED <<fetcherVars, heap, wPc, wLocal, mCycle, tCycle>>
    /\ UNCHANGED <<subVars, arbVars, storeVars, trackerVars, loggerVars, procVars, connVars, poolVars>>

\* MonitoringTasks: copyMonitoringTasks(f.lastMonitoring)
GetCopyMonitoring(g) ==
    /\ gPc[g] = "rlocked"
    /\ LET c == copyTasksInHeap(heap, fLastMonitoring)
       IN  /\ heap' = c.heap
           /\ got' = [got EXCEPT ![g].MonitoringTasks = c.result,
                                 ![g].mCycle = mCycle]
    /\ gPc' = [gPc EXCEPT ![g] = "copiedMonitoring"]
    /\ UNCHANGED <<fetcherVars, fMu, wPc, wLocal, mCycle, tCycle, gets>>
    /\ UNCHANGED <<subVars, arbVars, storeVars, trackerVars, loggerVars, procVars, connVars, poolVars>>

\* TradingTasks: copyTradingTasks(f.lastTrading); return, with the deferred
\* f.mu.RUnlock().
GetCopyTrading(g) ==
    /\ gPc[g] = "copiedMonitoring"
    /\ LET c == copyTasksInHeap(heap, fLastTrading)
       IN  /\ heap' = c.heap
           /\ got' = [got EXCEPT ![g].TradingTasks = c.result,
                                 ![g].tCycle = tCycle]
    /\ fMu' = [fMu EXCEPT !.r = @ \ { g }]
    /\ gPc' = [gPc EXCEPT ![g] = "returned"]
    /\ UNCHANGED <<fetcherVars, wPc, wLocal, mCycle, tCycle, gets>>
    /\ UNCHANGED <<subVars, arbVars, storeVars, trackerVars, loggerVars, procVars, connVars, poolVars>>

\* The caller of GetLast changes the tasks it got.
CallerEditsTasks(g) ==
    /\ gPc[g] = "returned"
    /\ LET mine == { got[g].MonitoringTasks[i] : i \in DOMAIN got[g].MonitoringTasks }
                     \cup { got[g].TradingTasks[i] : i \in DOMAIN got[g].TradingTasks }
       IN  heap' = [a \in DOMAIN heap |->
                      IF a \in mine THEN [heap[a] EXCEPT !.TradePair = Edited]
                      ELSE heap[a]]
    /\ gPc' = [gPc EXCEPT ![g] = "idle"]
    /\ UNCHANGED <<fetcherVars, fMu, wPc, wLocal, mCycle, tCycle, got, gets>>
    /\ UNCHANGED <<subVars, arbVars, storeVars, trackerVars, loggerVars, procVars, connVars, poolVars>>

NextSnapshot ==
    \/ FetchQueries
    \/ FetchLock
    \/ FetchAssignMonitoring
    \/ FetchAssignTrading
    \/ \E g \in Getters : GetRLock(g)
    \/ \E g \in Getters : GetCopyMonitoring(g)
    \/ \E g \in Getters : GetCopyTrading(g)
    \/ \E g \in Getters : CallerEditsTasks(g)

-----------------------------------------------------------------------------
(* Specifications.                                                         *)

Init == InitController /\ InitArbitrageIdle /\ InitStoreIdle
            /\ InitTrackerIdle /\ InitLoggerIdle /\ InitFetcherIdle
            /\ InitProcIdle /\ InitConnectIdle /\ InitPoolIdle /\ InitSnapIdle

Next == NextController

\* The subscription controller.
Spec == Init /\ [][Next]_vars

NextApply ==
    \/ NextController
    \/ CallerEditsDiff

\* The subscription controller with callers that hand ApplyDiff a diff of their
\* own, so that ApplyDiff can return an error.
SpecApply == Init /\ [][NextApply]_vars

InitConn == InitController /\ InitArbitrageIdle /\ InitStoreIdle
                /\ InitTrackerIdle /\ InitLoggerIdle /\ InitFetcherIdle
                /\ InitProcIdle /\ InitConnect /\ InitPoolIdle /\ InitSnapIdle

\* One call of db.ConnectWithRetry.
SpecConnect == InitConn /\ [][NextConnect]_vars

\* The same, where d.Connect() and time.Sleep return.
SpecConnectFair == SpecConnect /\ WF_vars(NextConnect)

\* The correlation map of one ws.Pool.
SpecPool == Init /\ [][NextPool]_vars

\* The fetcher's two lists under concurrent GetLast calls.
SpecSnapshot == Init /\ [][NextSnapshot]_vars

InitArb == InitController /\ InitArbitrage /\ InitTrackerIdle /\ InitLoggerIdle
               /\ InitFetcherIdle /\ InitProcIdle /\ InitConnectIdle /\ InitPoolIdle /\ InitSnapIdle

\* The arbitrage transaction coordinator over a store with rows.
SpecArb == InitArb /\ [][NextArbitrage]_vars

InitTrk == InitController /\ InitArbitrageIdle /\ InitTracker /\ InitLoggerIdle
               /\ InitFetcherIdle /\ InitProcIdle /\ InitConnectIdle /\ InitPoolIdle /\ InitSnapIdle

\* The heartbeat tracker over a store with rows.
SpecTracker == InitTrk /\ [][NextTracker]_vars

InitLog == InitController /\ InitArbitrageIdle /\ InitTrackerIdle /\ InitLogger
               /\ InitFetcherIdle /\ InitProcIdle /\ InitConnectIdle /\ InitPoolIdle /\ InitSnapIdle

\* The trade history logger.
SpecLogger == InitLog /\ [][NextLogger]_vars

InitFetch == InitController /\ InitArbitrageIdle /\ InitTrackerIdle /\ InitLoggerIdle
                 /\ InitFetcher /\ InitProcIdle /\ InitConnectIdle /\ InitPoolIdle /\ InitSnapIdle

\* The task fetcher.
SpecFetcher == InitFetch /\ [][NextFetcher]_vars

InitMgr == InitController /\ InitArbitrageIdle /\ InitTrackerIdle /\ InitLoggerIdle
               /\ InitFetcherIdle /\ InitManager /\ InitConnectIdle /\ InitPoolIdle /\ InitSnapIdle

\* The manager of one process, under concurrent control requests.
SpecManager == InitMgr /\ [][NextManager]_vars

\* The manager with a scheduler that lets every goroutine run and a runtime
\* that fires the timer of shutdownCtx.
SpecShutdown ==
    /\ InitMgr
    /\ [][NextShutdown]_vars
    /\ WF_vars(GraceExpires)
    /\ \A c \in ApiCallers : WF_vars(ManagerStopOnce(c))
    /\ \A c \in ApiCallers : WF_vars(ManagerDoStopEnd(c))

InitProc == InitController /\ InitArbitrageIdle /\ InitTrackerIdle /\ InitLoggerIdle
                /\ InitFetcherIdle /\ InitDaemon /\ InitConnectIdle /\ InitPoolIdle /\ InitSnapIdle

\* The daemon process over its restarts.
SpecDaemon == InitProc /\ [][NextDaemon]_vars

-----------------------------------------------------------------------------
(* Properties of the subscription controller.                              *)

\* The (venue, market, pair) that at least one monitor or trade task requires.
Required(monitoring, trading) ==
    { <<monitoring[k].ExchangeID, monitoring[k].MarketType, monitoring[k].TradePair>> :
        k \in DOMAIN monitoring }
    \cup
    { <<trading[k].ExchangeID, trading[k].MarketType, trading[k].TradePair>> :
        k \in DOMAIN trading }

MaxOf(S) == CHOOSE x \in S : \A y \in S : y <= x

\* The depth the tasks require for a pair: each monitor task its own depth, each
\* trade task 50, the largest of them.
RequiredDepth(monitoring, trading, tr) ==
    MaxOf({ monitoring[k].OrderbookDepth :
              k \in { x \in DOMAIN monitoring :
                        <<monitoring[x].ExchangeID, monitoring[x].MarketType,
                          monitoring[x].TradePair>> = tr } }
          \cup
          { 50 : k \in { x \in DOMAIN trading :
                        <<trading[x].ExchangeID, trading[x].MarketType,
                          trading[x].TradePair>> = tr } })

\* The (venue, market, pair) named by a list of Subscription entries.
Triples(subs) ==
    UNION { PoolKeys(subs[i].ExchangeID, subs[i].MarketType, subs[i].Pairs) :
              i \in DOMAIN subs }

\* A diff up to the order of its groups and of the pairs in a group.
Canon(d) ==
    LET grp(s) == [ExchangeID |-> s.ExchangeID, MarketType |-> s.MarketType,
                   Pairs |-> Range(s.Pairs), Depth |-> s.Depth]
    IN  [ToSubscribe |-> { grp(d.ToSubscribe[i]) : i \in DOMAIN d.ToSubscribe },
         Unsubscribe |-> { grp(d.Unsubscribe[i]) : i \in DOMAIN d.Unsubscribe }]

\* C1: after Merge(S_new) and an ApplyDiff that returned no error, the set
\* subscribed at the pool is exactly the set of (venue, market, pair) some
\* monitor or trade task of S_new requires.
C1_PoolEqualsRequired ==
    (pc = "applied" /\ ~applyErr)
        => subscribed = Required(lastMonitoring, lastTrading)

\* C2: a Merge whose snapshot holds the same monitor and trade tasks as the
\* snapshot recorded by the Merge before it returns a diff with empty
\* ToSubscribe and empty Unsubscribe.
C2_UnchangedSnapshotEmptyDiff ==
    (pc = "merged" /\ trip # "forward"
       /\ prevMonitoring = lastMonitoring /\ prevTrading = lastTrading)
        => (diff.ToSubscribe = <<>> /\ diff.Unsubscribe = <<>>)

C2_Witness ==
    /\ pc = "merged"
    /\ trip = "back"
    /\ prevMonitoring = lastMonitoring /\ prevTrading = lastTrading
    /\ DOMAIN lastMonitoring # {} /\ DOMAIN lastTrading # {}
    /\ subscribed # {}
    /\ diff = EmptyDiff

\* C3: Unsubscribe names a (venue, market, pair) exactly when some task of the
\* previous snapshot required it and no task of the new snapshot requires it.
C3_UnsubscribeExact ==
    pc = "merged"
        => Triples(diff.Unsubscribe)
             = Required(prevMonitoring, prevTrading)
                 \ Required(lastMonitoring, lastTrading)

\* C4: ToSubscribe names a (venue, market, pair) exactly when some task of the
\* new snapshot requires it and no task of the previous snapshot required it.
C4_SubscribeExact ==
    pc = "merged"
        => Triples(diff.ToSubscribe)
             = Required(lastMonitoring, lastTrading)
                 \ Required(prevMonitoring, prevTrading)

\* C5: every pair the diff adds is subscribed at the maximum depth over the
\* tasks of the new snapshot that require it (monitor: its depth, trade: 50).
C5_DepthIsMax ==
    pc = "merged"
        => \A i \in DOMAIN diff.ToSubscribe :
             \A tr \in Triples(<<diff.ToSubscribe[i]>>) :
                diff.ToSubscribe[i].Depth
                    = RequiredDepth(lastMonitoring, lastTrading, tr)

\* C6: a pair required in both snapshots whose required depth differs between
\* them is in Unsubscribe and in ToSubscribe at the new depth.
C6_DepthChangeResubscribes ==
    pc = "merged"
        => \A tr \in Required(prevMonitoring, prevTrading)
                       \cap Required(lastMonitoring, lastTrading) :
             RequiredDepth(prevMonitoring, prevTrading, tr)
                 # RequiredDepth(lastMonitoring, lastTrading, tr)
             => /\ tr \in Triples(diff.Unsubscribe)
                /\ \E i \in DOMAIN diff.ToSubscribe :
                     /\ tr \in Triples(<<diff.ToSubscribe[i]>>)
                     /\ diff.ToSubscribe[i].Depth
                          = RequiredDepth(lastMonitoring, lastTrading, tr)

\* C7: when a diff removes and adds the same (venue, market, pair), ApplyDiff
\* calls pool.Unsubscribe for it before pool.Subscribe, and the pair ends up
\* subscribed.
C7_UnsubscribeBeforeSubscribe ==
    (pc = "applied" /\ ~applyErr)
        => \A tr \in Triples(diff.ToSubscribe) \cap Triples(diff.Unsubscribe) :
             /\ \A i, j \in DOMAIN calls :
                    ( /\ calls[i].op = "unsubscribe"
                      /\ calls[j].op = "subscribe"
                      /\ tr \in Triples(<<calls[i]>>)
                      /\ tr \in Triples(<<calls[j]>>) ) => i < j
             /\ tr \in subscribed

\* C8: any two executions of Merge from the same recorded state with the same
\* snapshot return the same groups, pair sets and depths.
C8_MergeDeterministic ==
    pc = "merged"
        => \A d \in MergeDiffs(prevMonitoring, prevTrading,
                               lastMonitoring, lastTrading) :
             Canon(d) = Canon(diff)

\* C9: from an empty controller and an empty pool, applying the diff from the
\* empty snapshot to S and then the diff from S to the empty snapshot leaves
\* nothing subscribed at the pool.
C9_RoundTrip ==
    (pc = "applied" /\ trip = "back"
       /\ DOMAIN lastMonitoring = {} /\ DOMAIN lastTrading = {})
        => (~applyErr /\ subscribed = {})

C9_Witness ==
    /\ pc = "applied"
    /\ trip = "back"
    /\ DOMAIN lastMonitoring = {} /\ DOMAIN lastTrading = {}
    /\ DOMAIN prevMonitoring # {} /\ DOMAIN prevTrading # {}
    /\ \E i \in DOMAIN calls : calls[i].op = "unsubscribe"
    /\ subscribed = {}

-----------------------------------------------------------------------------
(* Properties of the arbitrage transaction coordinator.                    *)

\* The worker that owns a record (the one whose ACTIVE_TRADE_ID is the record's
\* TRADE_ID) is not Running.
OwnerNotRunning(row) ==
    ~ \E w \in daemonState :
          w.ACTIVE_TRADE_ID = {row.TRADE_ID} /\ w.STATUS = "RUNNING"

\* C10: once the coordinator has started, no ARBITRAGE_TRANS record is
\* InProgress while its owning worker is not Running (startup moved every such
\* record to Suspend).
C10_NoDeadInProgressAfterStart ==
    (\E w \in Workers : hState[w] = "started")
        => \A id \in DOMAIN arbTrans :
             ~ (arbTrans[id].STATUS = StatusInProgress
                  /\ OwnerNotRunning(arbTrans[id]))

\* C11: a poll of a worker moves every record it picks up (selected in status
\* New, scanned by the loop) to InProgress: after the poll a picked record is
\* no longer New.
C11_PollMovesNewToInProgress ==
    [][\A w \in Workers :
          \A id \in picked'[w] \ picked[w] :
             arbTrans'[id].STATUS = StatusInProgress]_vars

\* C12: no record is picked up by the poll loops of two workers: of two workers
\* that see the same record in status New only one takes it.
C12_SingleWinner ==
    \A id \in DOMAIN arbTrans :
       \A w1, w2 \in Workers :
          (id \in picked[w1] /\ id \in picked[w2]) => w1 = w2

\* The edges of the ARBITRAGE_TRANS state machine.
Edges ==
    { <<StatusNew, StatusInProgress>>,
      <<StatusInProgress, StatusComplete>>,
      <<StatusInProgress, StatusCompleteLoss>>,
      <<StatusInProgress, StatusError>>,
      <<StatusInProgress, StatusSuspend>>,
      <<StatusSuspend, StatusNew>>,
      <<StatusSuspend, StatusError>>,
      <<StatusError, StatusErrorApproved>>,
      <<StatusCompleteLoss, StatusCompleteLossApproved>> }

\* C13: every step of the coordinator that changes the status of a record
\* changes it along an edge of the state machine; in particular no record
\* leaves Complete, ErrorApproved or CompleteLossApproved.
C13_OnlyStateMachineEdges ==
    [][\A id \in DOMAIN arbTrans :
          /\ id \in DOMAIN arbTrans'
          /\ arbTrans'[id].STATUS # arbTrans[id].STATUS
                => <<arbTrans[id].STATUS, arbTrans'[id].STATUS>> \in Edges]_vars

C13_Witness ==
    /\ \E id \in DOMAIN arbTrans :
          arbTrans[id].STATUS = StatusNew /\ arbTrans[id].DATE_MODIFY > 0
    /\ \E id \in DOMAIN arbTrans :
          arbTrans[id].STATUS = StatusComplete /\ arbTrans[id].DATE_MODIFY = 0

\* TRADE_HISTORY holds a partial fill of the record's trade.
PartialFillsPresent(row) ==
    \E i \in DOMAIN tradeHistory :
        tradeHistory[i].TRADE_ID = row.TRADE_ID /\ tradeHistory[i].STATUS = "PARTIAL"

\* C14: recovery moves a Suspend record to Error when partial fills are
\* present, and to New only when there are none.
C14_RecoveryDistinguishesPartialFills ==
    [][\A id \in DOMAIN arbTrans :
          (arbTrans[id].STATUS = StatusSuspend /\ arbTrans'[id].STATUS # StatusSuspend)
             => arbTrans'[id].STATUS =
                   IF PartialFillsPresent(arbTrans[id])
                   THEN StatusError ELSE StatusNew]_vars

TerminalStatuses == { StatusError, StatusComplete, StatusCompleteLoss }

\* C15: a step changes AMOUNT or CALC_PRFIT of a record only when it moves the
\* record into a terminal status; polling and recovery leave both fields alone.
C15_AmountOnlyOnTerminal ==
    [][\A id \in DOMAIN arbTrans :
          (arbTrans'[id].AMOUNT # arbTrans[id].AMOUNT
             \/ arbTrans'[id].CALC_PRFIT # arbTrans[id].CALC_PRFIT)
          => /\ arbTrans'[id].STATUS # arbTrans[id].STATUS
             /\ arbTrans'[id].STATUS \in TerminalStatuses]_vars

C15_Witness ==
    /\ \E w \in Workers : picked[w] # {}
    /\ \E id \in DOMAIN arbTrans :
          /\ arbTrans[id].STATUS = StatusNew
          /\ arbTrans[id].DATE_MODIFY > 0
          /\ arbTrans[id].AMOUNT = NULL
          /\ arbTrans[id].CALC_PRFIT = NULL

-----------------------------------------------------------------------------
(* Properties of the heartbeat tracker.                                    *)

\* The DAEMON_STATE rows with a name.
RowsNamed(table, n) == { r \in table : r.DAEMON_NAME = n }

\* C16: after DaemonStateTracker.Stop has returned, the row of this worker has
\* status STOPPED.
C16_StopWritesStopped ==
    tPc = "stopped"
        => \A r \in daemonState : r.ID = tRecordID => r.STATUS = "STOPPED"

HeartbeatOlderThan(r, now, timeoutSec) ==
    UnixMicro(now) - r.LAST_HEARTBEAT > timeoutSec * MicrosPerSecond

\* C18: a call of CheckDeadDaemon that returns no error returns true when there
\* is no row for the name and when the row's heartbeat is older than
\* timeoutSec, and false for a RUNNING row whose heartbeat is within timeoutSec.
C18_IsDead ==
    [][(deadCheck' # deadCheck /\ ~deadCheck'.err)
         => LET rows == RowsNamed(daemonState, deadCheck'.daemonName)
                t    == deadCheck'.timeoutSec
            IN  /\ rows = {} => deadCheck'.isDead
                /\ \A r \in rows :
                     /\ HeartbeatOlderThan(r, dbNow, t) => deadCheck'.isDead
                     /\ (r.STATUS = "RUNNING" /\ ~HeartbeatOlderThan(r, dbNow, t))
                           => ~deadCheck'.isDead]_vars

C18_Witness ==
    /\ deadCheck.called /\ ~deadCheck.err /\ ~deadCheck.isDead
    /\ \E r \in RowsNamed(daemonState, deadCheck.daemonName) :
          /\ r.STATUS = "RUNNING"
          /\ r.LAST_HEARTBEAT = MicrosPerSecond
          /\ dbNow = 2
          /\ deadCheck.timeoutSec = 1

-----------------------------------------------------------------------------
(* Properties of the trade history logger.                                 *)

\* C20: a non-empty buffer is never older than the flush interval: it was
\* flushed when it reached MaxBuffer rows or when FlushInterval seconds had
\* passed since its first row was logged.
C20_FlushedWithinInterval ==
    Len(buffer) > 0 => dbNow - firstLoggedAt <= FlushInterval

\* The delay before retry number n of a failed insert: 1 s, 2 s, 4 s ...
\* capped at 60 s.
BackoffSeconds(n) ==
    IF 2 ^ (n - 1) < 60 THEN 2 ^ (n - 1) ELSE 60

\* C21: after a batch insert has failed the buffer still holds its rows, and
\* the insert is tried again no later than the backoff delay (1 s, 2 s, 4 s ...
\* capped at 60 s) after the failure.
C21_RetainedAndRetriedWithBackoff ==
    insertFailures > 0
        => /\ Len(buffer) > 0
           /\ dbNow - failedAt <= BackoffSeconds(insertFailures)

\* C31: no session carries more than MAX_PAIRS_PER_SESSION pairs: the pairs of
\* one subscribe are spread over sessions, so that no subscription the pool
\* sends out names more pairs than the cap.
C31_SessionCapRespected ==
    \A i \in DOMAIN calls :
        calls[i].op = "subscribe" => Len(calls[i].Pairs) <= MaxPairsPerSession

\* C36: lastCheckedID of a handler never decreases, and a poll observes only
\* New records whose id is above lastCheckedID and above every id the handler
\* observed before; so the ids a handler observed are strictly ascending (no
\* id twice), and a record put back to New whose id is not above lastCheckedID
\* is not observed again.
C36_ObservedOnceAscending ==
    [][\A w \in Workers :
          /\ lastCheckedID'[w] >= lastCheckedID[w]
          /\ \A i \in 1..Len(observed[w]) : observed[w][i] <= lastCheckedID[w]
          /\ Len(observed'[w]) >= Len(observed[w])
          /\ SubSeq(observed'[w], 1, Len(observed[w])) = observed[w]
          /\ \A i \in (Len(observed[w]) + 1)..Len(observed'[w]) :
                /\ observed'[w][i] > lastCheckedID[w]
                /\ arbTrans[observed'[w][i]].STATUS = StatusNew
                /\ \A j \in 1..(i - 1) : observed'[w][j] < observed'[w][i]
                /\ observed'[w][i] <= lastCheckedID'[w]]_vars

\* A handler has polled past a record, observed some record, and the record it
\* polled past is New now (recovered from Suspend) without ever having been
\* observed by that handler.
C36_Witness ==
    \E w \in Workers : \E id \in DOMAIN arbTrans :
        /\ hState[w] = "started"
        /\ Len(observed[w]) > 0
        /\ arbTrans[id].STATUS = StatusNew
        /\ arbTrans[id].DATE_MODIFY > 0
        /\ id < lastCheckedID[w]
        /\ \A i \in 1..Len(observed[w]) : observed[w][i] # id

-----------------------------------------------------------------------------
(* Properties of the task fetcher.                                         *)

\* C22: a fetch cycle of the running loop in which the monitoring query or the
\* trading query fails leaves what GetLast returns as it was before the
\* cycle, both lists whole, and leaves the loop waiting for its next tick.
C22_FailedPollKeepsSnapshot ==
    [][ (fState = "running" /\ fPolls' # fPolls /\ fErr' # "nil")
          => /\ GetLast(fLastMonitoring', fLastTrading', dbNow').MonitoringTasks
                  = GetLast(fLastMonitoring, fLastTrading, dbNow).MonitoringTasks
             /\ GetLast(fLastMonitoring', fLastTrading', dbNow').TradingTasks
                  = GetLast(fLastMonitoring, fLastTrading, dbNow).TradingTasks
             /\ fState' = "running" ]_vars

C22_Witness ==
    /\ fState = "running"
    /\ fErr = "trading"
    /\ Len(fLastMonitoring) = 2
    /\ Len(fLastTrading) > 0
    /\ fQueried # fLastMonitoring
    /\ fPolls < MaxPolls

-----------------------------------------------------------------------------
(* Properties of the manager, the state file and the daemon process.       *)

\* Goroutine c returns from Start (from Stop) in this step.
StartReturns(c) ==
    callers'[c].flip # callers[c].flip /\ callers'[c].op = "Start"

StopReturns(c) ==
    callers'[c].flip # callers[c].flip /\ callers'[c].op = "Stop"

\* C23: whenever Stop returns nil, whatever Start and Stop calls came before,
\* the manager is not running and the running flag of the state file is false.
C23_StopNilMeansStopped ==
    [][ \A c \in Callers :
          (StopReturns(c) /\ callers'[c].ret = "nil")
              => (~mIsRunning' /\ stateFile' = {FALSE}) ]_vars

\* C24: Start on a running manager returns ErrAlreadyRunning, Stop on a
\* manager that is not running returns ErrNotRunning, and a call that returns
\* one of the two leaves the running flag, the start time, the shutdown time
\* and the persisted state as they were.
C24_RefusedCallsChangeNothing ==
    [][ \A c \in Callers :
          /\ (StartReturns(c) /\ mIsRunning) => callers'[c].ret = ErrAlreadyRunning
          /\ (StopReturns(c) /\ callers[c].pc = "idle" /\ ~mIsRunning)
                => callers'[c].ret = ErrNotRunning
          /\ ( \/ StartReturns(c) /\ callers'[c].ret = ErrAlreadyRunning
               \/ StopReturns(c) /\ callers'[c].ret = ErrNotRunning )
                => UNCHANGED <<mIsRunning, mStartTime, mShutdownTime,
                               stIsRunning, stateFile, lastSet>> ]_vars

C24_Witness ==
    /\ callers["a1"].op = "Start" /\ callers["a1"].ret = ErrAlreadyRunning
    /\ callers["a2"].op = "Stop" /\ callers["a2"].ret = ErrNotRunning
    /\ mStartTime > 0 /\ mStartTime < mShutdownTime /\ mShutdownTime < dbNow
    /\ stateFile = {FALSE}

\* C25: doStop begins a shutdown at most once, and a Stop that found the
\* manager running returns only when that one shutdown has begun and ended:
\* the Once is done and the select of doStop is over.
C25_ShutdownRunsOnce ==
    [][ /\ doStops' <= 1
        /\ \A c \in Callers :
              (StopReturns(c) /\ callers[c].pc # "idle")
                  => /\ doStops' = 1
                     /\ shutdownOnce' = "done"
                     /\ graceTimer' = "off" ]_vars

C25_Witness ==
    /\ callers["a1"].op = "Stop" /\ callers["a1"].pc = "idle"
    /\ callers["a1"].ret = "nil"
    /\ callers["a2"].pc = "atOnce"
    /\ shutdownOnce = "done"
    /\ doStops = 1

\* C26: a Stop that found the manager running returns: it is never left
\* waiting.  doStop returns only when shutdownComponents has reported or the
\* grace period has expired; when it returns before the components reported,
\* Stop returns the deadline error, which is then m.shutdownError.  Whenever
\* such a Stop returns, m.ctx is cancelled.
C26_BoundedGracefulShutdown ==
    /\ [][ \A c \in Callers :
              (StopReturns(c) /\ callers[c].pc # "idle")
                  => /\ mCtx' = "cancelled"
                     /\ callers'[c].ret = mShutdownError'
                     /\ callers[c].pc = "inDoStop"
                          => (comp = "done" \/ graceTimer = "expired")
                     /\ (callers[c].pc = "inDoStop" /\ comp # "done")
                          => callers'[c].ret = DeadlineExceeded ]_vars
    /\ \A c \in ApiCallers :
          (callers[c].pc # "idle") ~> (callers[c].pc = "idle")

C26_Witness ==
    /\ callers["a1"].op = "Stop" /\ callers["a1"].pc = "idle"
    /\ callers["a1"].ret = DeadlineExceeded
    /\ comp = "stopping"
    /\ mCtx = "cancelled"

\* C27: after SetRunning(r) has returned, the flag in memory and the flag in
\* the state file both equal r.
C27_MemoryAndDiskSynchronised ==
    lastSet.ret # "none"
        => (stIsRunning = lastSet.r /\ stateFile = {lastSet.r})

\* C28: a process that has come up started its manager by itself if and only
\* if the manager was running when the previous process began to end, by a
\* crash or by a signal.
C28_AutoStartIffWasRunning ==
    mainPc = "serving" => (autoStarted <=> wasRunning)

\* C29: when the configuration file does not exist the process does not fail
\* on loading it.
C29_AbsentConfigStartsUp ==
    (configFile = "absent" /\ mainPc # "boot") => exitCause # "config"

-----------------------------------------------------------------------------
(* Further properties of the trade history logger.                         *)

\* The buffer holds the last orders accepted, in arrival order.
BufferIsTailOfAccepted(buf, acc) ==
    /\ Len(buf) <= Len(acc)
    /\ buf = SubSeq(acc, Len(acc) - Len(buf) + 1, Len(acc))

\* C35: no accepted order is lost: the buffer always holds the most recently
\* accepted orders in arrival order; an order leaves the buffer only when the
\* whole buffer is emptied, and that happens only in a call whose batch insert
\* stored one row for every order of the batch; LogOrderExecution(nil) returns
\* an error and leaves the buffer as it was.
C35_NoAcceptedOrderLost ==
    [][LET batch == IF accepted' # accepted
                    THEN Append(buffer, accepted'[Len(accepted')])
                    ELSE buffer
       IN  /\ BufferIsTailOfAccepted(buffer', accepted')
           /\ lastCall' = "nil"
                 => logErr' /\ buffer' = buffer /\ accepted' = accepted
           /\ buffer' # batch
                 => /\ buffer' = <<>>
                    /\ ~logErr'
                    /\ tradeHistory' = tradeHistory \o BatchRows(batch)]_vars

\* After a batch was stored and another order accepted, a nil order was
\* refused: the accepted order is still buffered.
C35_Witness ==
    /\ lastCall = "nil"
    /\ logErr
    /\ Len(buffer) > 0
    /\ Len(accepted) > Len(buffer)
    /\ Len(tradeHistory) > 0

-----------------------------------------------------------------------------
(* Further properties of the subscription controller.                      *)

\* The Pool calls the entries of a diff stand for, in the order ApplyDiff
\* visits them.
EntryCalls(d) ==
    [i \in 1..(Len(d.ToSubscribe) + Len(d.Unsubscribe)) |->
        IF i <= Len(d.ToSubscribe)
        THEN [op |-> "subscribe",
              ExchangeID |-> d.ToSubscribe[i].ExchangeID,
              MarketType |-> d.ToSubscribe[i].MarketType,
              Pairs |-> d.ToSubscribe[i].Pairs,
              Depth |-> d.ToSubscribe[i].Depth]
        ELSE LET u == d.Unsubscribe[i - Len(d.ToSubscribe)]
             IN  [op |-> "unsubscribe", ExchangeID |-> u.ExchangeID,
                  MarketType |-> u.MarketType, Pairs |-> u.Pairs, Depth |-> 0]]

\* C37: Merge records the snapshot before anything is applied; an ApplyDiff
\* that returns an error has made the calls of the entries before the failing
\* one and no other (with a failing subscribe, no unsubscribe at all); a
\* following Merge with the same snapshot returns an empty diff, whose
\* ApplyDiff makes no call: what was not applied is not issued again.
C37_SnapshotRecordedBeforeApply ==
    [][/\ (pc = "idle" /\ pc' = "merged")
            => /\ \E newTasks \in Snapshots :
                     /\ lastMonitoring' = BuildMonitoring(newTasks.MonitoringTasks)
                     /\ lastTrading' = BuildTrading(newTasks.TradingTasks)
               /\ subscribed' = subscribed
               /\ (lastMonitoring' = lastMonitoring /\ lastTrading' = lastTrading)
                     => diff' = EmptyDiff
       /\ (pc = "merged" /\ pc' = "applied")
            => LET entries == EntryCalls(diff)
                   n       == Len(calls')
               IN  /\ n <= Len(entries)
                   /\ calls' = SubSeq(entries, 1, n)
                   /\ applyErr' <=> n < Len(entries)
                   /\ applyErr' => /\ Len(entries[n + 1].Pairs) = 0
                                   /\ skipped' = Len(entries) - n - 1
                                   /\ n < Len(diff.ToSubscribe)
                                         => \A i \in 1..n : calls'[i].op = "subscribe"
                   /\ diff = EmptyDiff => calls' = <<>> /\ subscribed' = subscribed
                   /\ UNCHANGED <<lastMonitoring, lastTrading>>]_vars

\* An ApplyDiff returned an error leaving entries unapplied, and the Merge that
\* followed with the same snapshot returned an empty diff.
C37_Witness ==
    /\ pc = "merged"
    /\ skipped > 0
    /\ diff = EmptyDiff
    /\ prevMonitoring = lastMonitoring
    /\ prevTrading = lastTrading
    /\ DOMAIN lastMonitoring # {}

-----------------------------------------------------------------------------
(* Properties of the database connection.                                  *)

\* The schedule: no wait after the first ten attempts, then 1 s, 2 s, 4 s ...
\* capped at 300 s.
BackoffSchedule(n) ==
    IF n <= 10 THEN 0
    ELSE IF n - 11 >= 9 THEN 300
    ELSE 2 ^ (n - 11)

\* C33: the backoff computed after attempt n is 0 for n <= 10 and
\* min(2^(n-11), 300) above; it is never negative, never above 300 and never
\* below the backoff of an earlier attempt.
C33_BackoffSchedule ==
    \A n \in DOMAIN backoffs :
        /\ backoffs[n] = BackoffSchedule(n)
        /\ backoffs[n] >= 0
        /\ backoffs[n] <= 300
        /\ \A k \in 1..n : backoffs[k] <= backoffs[n]

\* C34: ConnectWithRetry makes at most max(1, MaxRetries) connection attempts
\* and returns.  It returns nil at the first attempt that succeeds, with the
\* driver of that attempt as the global driver; after max(1, MaxRetries) failed
\* attempts it returns the error of the last one, having waited after every
\* attempt but the last, with the global driver still nil.
C34_ConnectTerminates ==
    /\ [](LET most == IF cfgMaxRetries <= 0 THEN 1 ELSE cfgMaxRetries
          IN  /\ connects <= most
              /\ cPc # "returned" => cResult = "none" /\ driver = 0
              /\ cResult = "nil"
                   => /\ driver = connects
                      /\ lastErr = connects - 1
                      /\ Len(backoffs) = connects - 1
              /\ cResult = "error"
                   => /\ driver = 0
                      /\ connects = most
                      /\ lastErr = most
                      /\ Len(backoffs) = most - 1
              /\ cPc = "returned" => cResult \in { "nil", "error" })
    /\ <>(cPc = "returned")

\* Every one of three or more attempts failed and the error was returned.
C34_Witness ==
    /\ cPc = "returned"
    /\ cResult = "error"
    /\ connects >= 3
    /\ Len(backoffs) = connects - 1

-----------------------------------------------------------------------------
(* Properties of the WS correlation.                                       *)

\* The inbound messages handled so far: written to ws_in, or looked up and
\* about to be written.
Handled ==
    DOMAIN wsIn \cup { rMsg[r] : r \in { x \in Readers : rPc[x] = "looked" } }

\* The number of handled messages with event id e that got a recovered
\* request id.
Correlations(e) ==
    SumOver(wsIn, { x \in DOMAIN wsIn : x.eventID = e /\ x.correlated })
      + Cardinality({ r \in Readers :
                        rPc[r] = "looked" /\ rMsg[r].eventID = e /\ rMsg[r].correlated })

\* Message x has no request id of its own and carries an event id that a call
\* with a request id had returned no more than correlationTTL before.
InTime(x) ==
    /\ x.eventID # NoEvent
    /\ x.carried = ""
    /\ x.returned
    /\ x.inTime
    /\ issued[x.eventID].requestID # ""

\* C32, as stated: every inbound message without request id that carries an
\* event id returned by a call with a request id, and arrives within 24 hours
\* of that call, is logged with the request id of the call.
C32_EveryMessageInTimeCorrelated ==
    \A x \in Handled :
        InTime(x) => x.requestID = issued[x.eventID].requestID

\* C32, amended: the first such message is logged with the request id of the
\* call; a lookup returns a request id only from an entry no older than 24
\* hours; after a cleanup no entry older than 24 hours is left, and an entry
\* no older than 24 hours leaves the map only by being looked up.
C32_FirstMessageInTimeCorrelated ==
    [][/\ \A r \in Readers :
            (rPc[r] = "idle" /\ rPc'[r] = "looked")
                => LET x == rMsg'[r]
                   IN  /\ ( /\ InTime(x)
                            /\ \A y \in Handled :
                                  ~(y.eventID = x.eventID /\ y.carried = ""
                                      /\ y.returned) )
                              => /\ x.correlated
                                 /\ x.requestID = issued[x.eventID].requestID
                       /\ (x.carried = "" /\ x.requestID # "")
                              => /\ InTime(x)
                                 /\ x.requestID = issued[x.eventID].requestID
       /\ cleaned'
            => \A e \in DOMAIN eventToRequestID' :
                  wsNow' - eventToRequestID'[e].createdAt <= correlationTTL
       /\ \A e \in DOMAIN eventToRequestID \ DOMAIN eventToRequestID' :
            \/ wsNow - eventToRequestID[e].createdAt > correlationTTL
            \/ \E r \in Readers :
                  /\ rPc[r] = "idle" /\ rPc'[r] = "looked"
                  /\ rMsg'[r].eventID = e]_vars

\* One message was logged with the recovered request id, and the entry of
\* another call, never looked up, was removed by the cleanup after 24 hours.
C32_Witness ==
    /\ \E x \in DOMAIN wsIn : InTime(x) /\ x.correlated
    /\ cleaned
    /\ \E e \in DOMAIN issued :
          /\ issued[e].requestID # ""
          /\ wsNow - issued[e].at > correlationTTL
          /\ e \notin DOMAIN eventToRequestID
          /\ \A y \in Handled : y.eventID # e

\* C39: at most one inbound message per event id is logged with the recovered
\* request id; an entry of the map belongs to an event id returned by a call
\* with a request id, so that a call with an empty request id, or one refused
\* for its empty pair list, adds none.
C39_ConsumedAtMostOnce ==
    /\ [](/\ \A e \in EventIDs : Correlations(e) <= 1
          /\ \A e \in DOMAIN eventToRequestID :
                /\ e \in DOMAIN issued
                /\ issued[e].requestID # ""
                /\ eventToRequestID[e].requestID = issued[e].requestID
                /\ eventToRequestID[e].createdAt = issued[e].at)
    /\ [][/\ (rejected' # rejected) => UNCHANGED <<eventToRequestID, issued>>
          /\ \A e \in DOMAIN issued' \ DOMAIN issued :
                issued'[e].requestID = "" => UNCHANGED eventToRequestID]_vars

\* Two inbound messages with the same event id arrived in time, one of them
\* was logged with the request id; a call with an empty request id returned an
\* event id, and a call was refused.
C39_Witness ==
    /\ rejected
    /\ \E e \in DOMAIN issued : issued[e].requestID = ""
    /\ \E x \in DOMAIN wsIn : \E y \in DOMAIN wsIn :
          /\ InTime(x) /\ InTime(y)
          /\ x.eventID = y.eventID
          /\ x.correlated /\ ~y.correlated

-----------------------------------------------------------------------------
(* Properties of the fetcher in memory.                                    *)

\* C38: the two lists one GetLast call returns were assigned by the same
\* fetchTasks call, whatever the interleaving with the fetch loop; and the
\* tasks it returns are as that fetchTasks call stored them, whatever callers
\* did to the tasks that earlier GetLast calls had returned.
C38_SnapshotConsistent ==
    \A g \in Getters :
        gPc[g] = "returned"
            => /\ got[g].mCycle = got[g].tCycle
               /\ Len(got[g].MonitoringTasks) = (IF got[g].mCycle = 0 THEN 0 ELSE 1)
               /\ Len(got[g].TradingTasks) = (IF got[g].tCycle = 0 THEN 0 ELSE 1)
               /\ \A i \in DOMAIN got[g].MonitoringTasks :
                     heap[got[g].MonitoringTasks[i]] = NewTask(got[g].mCycle)
               /\ \A i \in DOMAIN got[g].TradingTasks :
                     heap[got[g].TradingTasks[i]] = NewTask(got[g].tCycle)

\* A GetLast call has returned the lists of one fetch cycle while the next
\* fetchTasks call was under way, after a caller had changed the tasks that an
\* earlier GetLast call had returned for the same cycle.
C38_Witness ==
    \E g \in Getters :
        /\ gPc[g] = "returned"
        /\ got[g].mCycle >= 1
        /\ wPc = "queried"
        /\ \E a \in DOMAIN heap :
              heap[a].TradePair = Edited /\ heap[a].cycle = got[g].mCycle

=============================================================================
